--------------------------- MODULE MCServicesProofs ---------------------------
(***************************************************************************)
(* What is proved of the services one by one holds of them side by side,   *)
(* as MCServices explores them.                                            *)
(***************************************************************************)
EXTENDS MCServices, PersistProofs, ServicesProofs

\* A step of one part is a step of it as it is specified, and a step at which the
\* others stay where they are.
LEMMA PartsStep ==
    [Next]_vars =>
      /\ [PersistNext]_persist /\ [PipeNext]_parse /\ [IdentitiesNext]_identities /\ [CanonNext]_canon
      /\ [RepairNext]_repair /\ [RateNext]_rate /\ [SyncNext]_sides /\ [TablesNext]_tables
      /\ UNCHANGED part
<1> SUFFICES ASSUME [Next]_vars
             PROVE  /\ [PersistNext]_persist /\ [PipeNext]_parse /\ [IdentitiesNext]_identities
                    /\ [CanonNext]_canon /\ [RepairNext]_repair /\ [RateNext]_rate /\ [SyncNext]_sides
                    /\ [TablesNext]_tables /\ UNCHANGED part
  OBVIOUS
<1>1. CASE UNCHANGED vars
  BY <1>1, Zenon DEF vars
<1>2. CASE Next
  BY <1>2, Zenon DEF Next, PersistStep, PipelineStep, IdentitiesStep, CanonStep, RepairStep, RateStep,
                     SyncStep, TablesStep
<1>3. QED
  BY <1>1, <1>2

\* Explored side by side, each part behaves as its own specification says: what
\* is proved of the parts holds of the system that the run explores.
THEOREM PartsBehave ==
    Spec => /\ PersistSpec /\ PipeSpec /\ IdentitiesSpec /\ CanonSpec /\ RepairSpec /\ RateSpec
            /\ SyncSpec /\ TablesInit /\ [][TablesNext]_tables /\ [][UNCHANGED part]_vars
<1>1. Init => /\ PersistInit /\ PipeInit /\ IdentitiesInit /\ CanonInit /\ RepairInit /\ RateInit
              /\ SyncInit /\ TablesInit
  BY DEF Init
<1>2. QED
  BY <1>1, PartsStep, PTL
     DEF Spec, PersistSpec, PipeSpec, IdentitiesSpec, CanonSpec, RepairSpec, RateSpec, SyncSpec

\* Every part keeps its types, and no other part ever gets to work.
THEOREM ServicesTypes == Alternate => (Spec => []TypeOK)
<1> SUFFICES ASSUME Alternate PROVE Spec => []TypeOK
  OBVIOUS
<1>1. Init => part \in Shown
  BY DEF Init
<1>2. part \in Shown /\ [Next]_vars => (part \in Shown)'
  BY PartsStep
<1>3. TablesInit /\ [][TablesNext]_tables => []TablesTypeOK
  BY TablesFirst, TablesGoOn, TablesTyping, PTL
<1>4. SyncSpec => []SyncTypeOK
  BY SyncTypes
<1>5. (/\ part \in Shown /\ PersistTypeOK /\ PipeTypeOK /\ IdentitiesTypeOK /\ CanonTypeOK
       /\ RepairTypeOK /\ RateTypeOK /\ SyncTypeOK /\ TablesTypeOK) => TypeOK
  BY DEF TypeOK
<1>6. QED
  BY <1>1, <1>2, <1>3, <1>4, <1>5, PartsBehave, PersistTypes, PipeTypes, IdentitiesTypes, CanonTypes,
     RepairTypes, RateTypes, PTL DEF Spec
=============================================================================
