------------------------------ MODULE Catalogue ------------------------------
(***************************************************************************)
(* What publishing promises the rest of the system: a table of firmware    *)
(* that only grows, whose rows are told apart by version and by binary     *)
(* within an account and model, and of which any may be withdrawn.         *)
(* Publishing implements it; CheckIn reads it.                             *)
(***************************************************************************)
EXTENDS VersionOrder

CONSTANTS
    Owners, Models, Versions, Images, Signatures,
    Releases        \* the rows that uploads may come to add

VARIABLE firmware   \* the rows in the order of their ids

Rows == [owner : Owners, model : Models, version : Versions, image : Images,
         signature : Signatures, active : BOOLEAN]

ASSUME CatalogueAssumption == Releases \subseteq Rows

(* The two unique indexes; withdrawn rows are in them too.                 *)
SameBinary(r, s) == r.owner = s.owner /\ r.model = s.model /\ r.image = s.image
SameVersion(r, s) == r.owner = s.owner /\ r.model = s.model /\ r.version = s.version

Publish(r) ==
    /\ r.active
    /\ \A i \in DOMAIN firmware : ~SameBinary(firmware[i], r) /\ ~SameVersion(firmware[i], r)
    /\ firmware' = Append(firmware, r)

Withdraw(owner, id) ==
    /\ firmware[id].owner = owner
    /\ firmware' = [firmware EXCEPT ![id].active = FALSE]

CatalogueInit == firmware = <<>>

CatalogueNext ==
    \/ \E r \in Releases : Publish(r)
    \/ \E owner \in Owners, id \in DOMAIN firmware : Withdraw(owner, id)

CatalogueSpec == CatalogueInit /\ [][CatalogueNext]_firmware

-----------------------------------------------------------------------------
(* get_latest_for_model: of the account's active rows for the model, the   *)
(* one with the highest version, and of equal versions (1.2.3 and 1.2.03)  *)
(* the last.                                                               *)
Offered(owner, model) ==
    {i \in DOMAIN firmware : /\ firmware[i].owner = owner
                             /\ firmware[i].model = model
                             /\ firmware[i].active}

\* mutant: whoever published it
LatestOfAnyone(owner, model) ==
    {i \in DOMAIN firmware :
        /\ firmware[i].model = model /\ firmware[i].active
        /\ \A j \in DOMAIN firmware :
              firmware[j].model = model /\ firmware[j].active =>
                  /\ ~IsVersionNewer(firmware[j].version, firmware[i].version)
                  /\ firmware[j].version = firmware[i].version => j <= i}

Latest(owner, model) ==
    {i \in Offered(owner, model) :
        \A j \in Offered(owner, model) :
            /\ ~IsVersionNewer(firmware[j].version, firmware[i].version)
            /\ firmware[j].version = firmware[i].version => j <= i}
=============================================================================
