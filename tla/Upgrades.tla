------------------------------ MODULE Upgrades ------------------------------
(***************************************************************************)
(* The code of the other contracts and how it is replaced.  The admin of   *)
(* the credit line, the pool, the reputation contract or the vendor        *)
(* registry announces a new code, and may execute the announcement once    *)
(* the delay that governance set (Governance's govParams.upgradeDelay) has *)
(* passed; a second announcement replaces the first.  The vouching         *)
(* contract has no timelock.                                               *)
(*                                                                         *)
(* Each of the four reads the delay through a ProtocolParameters record of *)
(* its own.  Only the credit line's has all the fields the parameters      *)
(* contract stores: decoding the record into any of the other three fails, *)
(* which either refuses the announcement or falls back to the default.     *)
(***************************************************************************)
EXTENDS Governance

CONSTANTS
  Timelocked,   \* of "creditline", "pool", "reputation", "registry"
  Hashes,       \* wasm hashes
  DefaultDelay, \* DEFAULT_UPGRADE_DELAY_SECONDS
  MaxUpgrades   \* bound on the upgrades of a contract

Contracts == Timelocked \cup {"vouching"}

ASSUME UpgradesAssumption ==
  /\ Timelocked \subseteq {"creditline", "pool", "reputation", "registry"}
  /\ DefaultDelay \in Nat \ {0}
  /\ MaxUpgrades \in Nat

VARIABLES
  wired,      \* the contracts that know the parameters contract
  announced,  \* PendingUpgrade of each timelocked contract, or NoUpgrade
  code,       \* [hash, version] of each contract
  notice      \* history: of each contract the last announcement not executed
              \* yet, with the delay that was in force when it was made

upgradeVars == <<wired, announced, code, notice>>

NoUpgrade == [hash |-> "none", at |-> 0, unlock |-> 0]
NoNotice  == [hash |-> "none", at |-> 0, delay |-> 0]

UpgradesInit ==
  /\ GovInit
  /\ wired = {}
  /\ announced = [c \in Timelocked |-> NoUpgrade]
  /\ code = [c \in Contracts |-> [hash |-> "initial", version |-> 1]]
  /\ notice = [c \in Timelocked |-> NoNotice]

\* The contracts whose ProtocolParameters has a field late_fee_bps.
ReadsWholeRecord == {"creditline"}

\* Mutation: a delay of zero is taken at its word.
DelayAsSet(c) ==
  IF c \in wired /\ c \in ReadsWholeRecord THEN govParams.upgradeDelay ELSE DefaultDelay

\* The delay an announcement waits, if reading it does not refuse the
\* announcement: the default where there is none, or none that can be read.
Delay(c) ==
  IF c \in wired /\ c \in ReadsWholeRecord /\ govParams.upgradeDelay > 0
  THEN govParams.upgradeDelay
  ELSE DefaultDelay

Install(c, h) == code' = [code EXCEPT ![c] = [hash |-> h, version |-> @.version + 1]]

ProposeUpgrade(c, h) ==
  /\ announced' = [announced EXCEPT ![c] =
                     [hash |-> h, at |-> now, unlock |-> now + Delay(c)]]
  /\ notice' = [notice EXCEPT ![c] = [hash |-> h, at |-> now, delay |-> Delay(c)]]
  /\ UNCHANGED <<govVars, wired, code>>

\* Mutation: the announcement is not cleared and may be executed again.
ExecuteAndKeep(c, h) ==
  /\ announced[c] # NoUpgrade
  /\ announced[c].hash = h
  /\ now >= announced[c].unlock
  /\ Install(c, h)
  /\ notice' = [notice EXCEPT ![c] = NoNotice]
  /\ UNCHANGED <<govVars, wired, announced>>

\* execute_upgrade; upgrade is the same entry point by its old name.
ExecuteUpgrade(c, h) ==
  /\ announced[c] # NoUpgrade
  /\ announced[c].hash = h
  /\ now >= announced[c].unlock
  /\ Install(c, h)
  /\ announced' = [announced EXCEPT ![c] = NoUpgrade]
  /\ notice' = [notice EXCEPT ![c] = NoNotice]
  /\ UNCHANGED <<govVars, wired>>

UpgradeVouching(h) ==
  /\ Install("vouching", h)
  /\ UNCHANGED <<govVars, wired, announced, notice>>

\* set_parameters_contract
Wire(c) ==
  /\ wired' = wired \cup {c}
  /\ UNCHANGED <<govVars, announced, code, notice>>

UpgradesNext ==
  \/ GovNext /\ UNCHANGED upgradeVars
  \/ \E c \in Timelocked, h \in Hashes : ProposeUpgrade(c, h)
  \/ \E c \in Timelocked, h \in Hashes :
       code[c].version <= MaxUpgrades /\ ExecuteUpgrade(c, h)
  \/ \E h \in Hashes : code["vouching"].version <= MaxUpgrades /\ UpgradeVouching(h)
  \/ \E c \in Timelocked : Wire(c)

UpgradesSpec == UpgradesInit /\ [][UpgradesNext]_<<govVars, upgradeVars>>

-----------------------------------------------------------------------------
(* Properties                                                              *)

\* New code of a timelocked contract was announced, as that code, and waited
\* the delay in force at its last announcement, which nothing shortens: no
\* earlier announcement, no change of parameters since; and an announcement
\* is good for one execution.
UpgradesWait ==
  [][ \A c \in Timelocked :
        code'[c] # code[c] =>
          /\ notice[c] # NoNotice
          /\ code'[c].hash = notice[c].hash
          /\ now >= notice[c].at + notice[c].delay ]_<<govVars, upgradeVars>>

\* There is always time to react to an announcement, even if the committee
\* set a delay of zero.
NoticeIsNeverEmpty ==
  \A c \in Timelocked : announced[c] # NoUpgrade => announced[c].unlock > announced[c].at

-----------------------------------------------------------------------------
(* What a comment says and the code does not do                            *)

\* Every wired contract waits the delay the committee set.
GovernedDelay ==
  \A c \in wired : govParams.upgradeDelay > 0 => Delay(c) = govParams.upgradeDelay
=============================================================================
