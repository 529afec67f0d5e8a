---------------------------- MODULE UpgradesProofs ----------------------------
(***************************************************************************)
(* Proofs about Upgrades, for every set of timelocked contracts and codes, *)
(* every default delay and every behaviour of the committee.               *)
(***************************************************************************)
EXTENDS Upgrades, GovernanceProofs

\* The composition adds no behaviour to the parameters contract, so that what
\* is proved of it alone holds here.
LEMMA UpgradesGovern == UpgradesSpec => GovSpec
<1>1. UpgradesInit => GovInit
  BY DEF UpgradesInit
<1>2. [UpgradesNext]_<<govVars, upgradeVars>> => [GovNext]_govVars
  BY DEF UpgradesNext, ProposeUpgrade, ExecuteUpgrade, UpgradeVouching, Wire
<1>3. QED BY <1>1, <1>2, PTL DEF UpgradesSpec, GovSpec

-----------------------------------------------------------------------------
(* The inductive invariant                                                 *)

\* What is announced is what the last notice said: that code, and its whole
\* delay, which is never empty.
Noticed(c) ==
  announced[c] # NoUpgrade =>
    /\ notice[c].hash = announced[c].hash /\ notice[c].at = announced[c].at
    /\ notice[c].at \in Nat /\ notice[c].delay \in Nat \ {0}
    /\ announced[c].unlock = notice[c].at + notice[c].delay

UpgradesInv ==
  /\ DOMAIN announced = Timelocked /\ DOMAIN notice = Timelocked
  /\ DOMAIN code = Contracts
  /\ \A c \in Timelocked : Noticed(c)

\* A delay of zero, no parameters contract and a record that cannot be read
\* all fall back to the default.
LEMMA DelayPositive ==
  ASSUME GovTypeOK, NEW c
  PROVE  Delay(c) \in Nat \ {0}
<1>1. govParams.upgradeDelay \in Nat /\ DefaultDelay \in Nat \ {0}
  BY UpgradesAssumption DEF GovTypeOK, Params
<1>2. QED BY <1>1 DEF Delay

LEMMA InitUpgrades == UpgradesInit => UpgradesInv
BY DEF UpgradesInit, UpgradesInv, Noticed

LEMMA ProposeUpgradeInv ==
  ASSUME UpgradesInv, GovTypeOK, NEW c \in Timelocked, NEW h \in Hashes, ProposeUpgrade(c, h)
  PROVE  UpgradesInv'
<1> DEFINE d == Delay(c)
<1>1. d \in Nat \ {0} /\ now \in Nat
  BY DelayPositive DEF GovTypeOK
<1>2. /\ announced' = [announced EXCEPT ![c] = [hash |-> h, at |-> now, unlock |-> now + d]]
      /\ notice' = [notice EXCEPT ![c] = [hash |-> h, at |-> now, delay |-> d]]
      /\ code' = code
  BY DEF ProposeUpgrade
<1> HIDE DEF d
<1>3. /\ DOMAIN announced' = Timelocked /\ DOMAIN notice' = Timelocked
      /\ DOMAIN code' = Contracts
  BY <1>2 DEF UpgradesInv
<1>4. /\ announced'[c] = [hash |-> h, at |-> now, unlock |-> now + d]
      /\ notice'[c] = [hash |-> h, at |-> now, delay |-> d]
  BY <1>2 DEF UpgradesInv
<1>5. Noticed(c)'
  BY <1>1, <1>4 DEF Noticed
<1>6. ASSUME NEW k \in Timelocked, k # c PROVE Noticed(k)'
  <2>1. announced'[k] = announced[k] /\ notice'[k] = notice[k]
    BY <1>2, <1>6 DEF UpgradesInv
  <2>2. Noticed(k)
    BY DEF UpgradesInv
  <2>3. QED BY <2>1, <2>2 DEF Noticed
<1>7. QED BY <1>3, <1>5, <1>6 DEF UpgradesInv

LEMMA ExecuteUpgradeInv ==
  ASSUME UpgradesInv, NEW c \in Timelocked, NEW h \in Hashes, ExecuteUpgrade(c, h)
  PROVE  UpgradesInv'
<1>1. /\ announced' = [announced EXCEPT ![c] = NoUpgrade]
      /\ notice' = [notice EXCEPT ![c] = NoNotice]
      /\ DOMAIN code' = DOMAIN code
  BY DEF ExecuteUpgrade, Install
<1>2. /\ DOMAIN announced' = Timelocked /\ DOMAIN notice' = Timelocked
      /\ DOMAIN code' = Contracts /\ announced'[c] = NoUpgrade
  BY <1>1 DEF UpgradesInv
<1>3. ASSUME NEW k \in Timelocked PROVE Noticed(k)'
  <2>1. CASE k = c
    BY <1>2, <2>1 DEF Noticed
  <2>2. CASE k # c
    <3>1. announced'[k] = announced[k] /\ notice'[k] = notice[k]
      BY <1>1, <2>2 DEF UpgradesInv
    <3>2. Noticed(k)
      BY DEF UpgradesInv
    <3>3. QED BY <3>1, <3>2 DEF Noticed
  <2>3. QED BY <2>1, <2>2
<1>4. QED BY <1>2, <1>3 DEF UpgradesInv

LEMMA StepUpgrades ==
  UpgradesInv /\ GovTypeOK /\ [UpgradesNext]_<<govVars, upgradeVars>> => UpgradesInv'
<1> SUFFICES ASSUME UpgradesInv, GovTypeOK, [UpgradesNext]_<<govVars, upgradeVars>>
             PROVE  UpgradesInv'
  OBVIOUS
<1>1. ASSUME NEW c \in Timelocked, NEW h \in Hashes, ProposeUpgrade(c, h) PROVE UpgradesInv'
  BY <1>1, ProposeUpgradeInv
<1>2. ASSUME NEW c \in Timelocked, NEW h \in Hashes, ExecuteUpgrade(c, h) PROVE UpgradesInv'
  BY <1>2, ExecuteUpgradeInv
<1>3. ASSUME UNCHANGED <<announced, notice>>, DOMAIN code' = DOMAIN code PROVE UpgradesInv'
  BY <1>3 DEF UpgradesInv, Noticed
<1>4. ASSUME NEW h \in Hashes, UpgradeVouching(h) PROVE UpgradesInv'
  BY <1>3, <1>4 DEF UpgradeVouching, Install
<1>5. ASSUME NEW c \in Timelocked, Wire(c) PROVE UpgradesInv'
  BY <1>3, <1>5 DEF Wire
<1>6. CASE UNCHANGED upgradeVars
  BY <1>3, <1>6 DEF upgradeVars
<1>7. QED BY <1>1, <1>2, <1>4, <1>5, <1>6 DEF UpgradesNext

LEMMA UpgradesInvHolds == UpgradesSpec => [](UpgradesInv /\ GovTypeOK)
<1>1. UpgradesSpec => []GovTypeOK
  BY UpgradesGovern, GovTypes
<1>2. QED BY <1>1, InitUpgrades, StepUpgrades, PTL DEF UpgradesSpec

-----------------------------------------------------------------------------
(* The theorems                                                            *)

\* There is always time to react to an announcement, whatever delay governance
\* set and whether or not the contract can read it.
THEOREM NoticesNotEmpty == UpgradesSpec => []NoticeIsNeverEmpty
<1>1. UpgradesInv => NoticeIsNeverEmpty
  <2> SUFFICES ASSUME UpgradesInv, NEW c \in Timelocked, announced[c] # NoUpgrade
               PROVE  announced[c].unlock > announced[c].at
    BY DEF NoticeIsNeverEmpty
  <2>1. /\ notice[c].at = announced[c].at /\ notice[c].at \in Nat
        /\ notice[c].delay \in Nat \ {0}
        /\ announced[c].unlock = notice[c].at + notice[c].delay
    BY DEF UpgradesInv, Noticed
  <2>2. QED BY <2>1
<1>2. QED BY <1>1, UpgradesInvHolds, PTL

\* New code of a timelocked contract is the code announced last, and it waited
\* the whole delay of that announcement.
THEOREM UpgradesWaited == UpgradesSpec => UpgradesWait
<1> DEFINE Waited == \A c \in Timelocked :
             code'[c] # code[c] =>
               /\ notice[c] # NoNotice
               /\ code'[c].hash = notice[c].hash
               /\ now >= notice[c].at + notice[c].delay
<1>1. ASSUME UpgradesInv, [UpgradesNext]_<<govVars, upgradeVars>>
      PROVE  Waited
  <2> SUFFICES ASSUME NEW c \in Timelocked, code'[c] # code[c]
               PROVE  /\ notice[c] # NoNotice
                      /\ code'[c].hash = notice[c].hash
                      /\ now >= notice[c].at + notice[c].delay
    OBVIOUS
  <2>1. c \in DOMAIN code /\ c # "vouching"
    BY <1>1, UpgradesAssumption DEF UpgradesInv, Contracts
  <2>2. PICK k \in Timelocked, h \in Hashes : ExecuteUpgrade(k, h)
    BY <1>1, <2>1 DEF UpgradesNext, upgradeVars, ProposeUpgrade, UpgradeVouching, Install, Wire
  <2>3. code' = [code EXCEPT ![k] = [hash |-> h, version |-> code[k].version + 1]]
    BY <2>2 DEF ExecuteUpgrade, Install
  <2>4. k = c
    BY <2>1, <2>3
  <2>5. code'[c].hash = h
    BY <2>1, <2>3, <2>4
  <2>6. announced[c] # NoUpgrade /\ announced[c].hash = h /\ now >= announced[c].unlock
    BY <2>2, <2>4 DEF ExecuteUpgrade
  <2>7. /\ notice[c].hash = announced[c].hash /\ notice[c].delay # 0
        /\ announced[c].unlock = notice[c].at + notice[c].delay
    BY <1>1, <2>6 DEF UpgradesInv, Noticed
  <2>8. notice[c] # NoNotice
    BY <2>7 DEF NoNotice
  <2>9. QED BY <2>5, <2>6, <2>7, <2>8
<1>2. UpgradesInv /\ [UpgradesNext]_<<govVars, upgradeVars>>
        => [Waited]_<<govVars, upgradeVars>>
  BY <1>1
<1>3. QED BY <1>2, UpgradesInvHolds, PTL DEF UpgradesSpec, UpgradesWait
=============================================================================
