--------------------------- MODULE VendorRegistry ---------------------------
(***************************************************************************)
(* The vendor registry: each vendor has a status that the registry's admin *)
(* moves by six entry points, two for new vendors and four that act on any *)
(* registered vendor, a pending or a suspended one included.  The credit   *)
(* line and the pool ask is_active.  Names, dates and the number of        *)
(* vendors carry no control.                                               *)
(***************************************************************************)

\* "Unregistered" stands for a vendor without an entry; nothing assigns
\* "Rejected".
VendorStatus == {"Unregistered", "Pending", "Approved", "Suspended", "Rejected"}

\* Mutation: whoever is not suspended is active.
ActiveUnlessSuspended(status) == status # "Suspended"

\* is_active
IsActive(status) == status = "Approved"

\* register_vendor
Registrable(status) == status = "Unregistered"

\* approve_vendor
Approvable(status) == status = "Pending"

\* suspend_vendor, deactivate_vendor, activate_vendor, set_vendor_status
Movable(status) == status # "Unregistered"
=============================================================================
