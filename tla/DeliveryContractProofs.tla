----------------------- MODULE DeliveryContractProofs -----------------------
(* Promise holds of DeliveryContract for all messages and batches.         *)
EXTENDS DeliveryContract, TLAPS

(* Every variable has its type.                                            *)
ContractTypes ==
    /\ phase \in [Message -> {"new", "claimed", "bound", "answered"}]
    /\ bound \in [Message -> Batch \cup {NoBatchYet}]
    /\ written = [m \in Message |-> written[m]]
    /\ stored \in [Message -> Kind \cup {"none"}]
    /\ told \in [Message -> SUBSET (Kind \cup {"failed"})]

(* What each phase says of the rest: nothing is written or said before the *)
(* batch is bound to a legal batch, except that selection failed.          *)
PhaseInv ==
    \A m \in Message :
        /\ phase[m] \in {"new", "claimed"} =>
              written[m] = {} /\ told[m] \subseteq {"failed"}
        /\ phase[m] = "new" => told[m] = {}
        /\ phase[m] = "bound" =>
              /\ bound[m] \in Legal => told[m] = {}
              /\ bound[m] \notin Legal =>
                    written[m] = {} /\ told[m] \subseteq {"failed"}
        /\ phase[m] = "answered" =>
              /\ written[m] = Writes[bound[m]]
              /\ stored[m] \in Kind
              /\ told[m] \subseteq {stored[m]}

ContractInv == ContractTypes /\ PhaseInv

LEMMA ContractInit == Init => ContractInv
BY DEF Init, ContractInv, ContractTypes, PhaseInv, Kind, NoBatchYet

LEMMA ContractStep == ContractInv /\ [Next]_contractVars => ContractInv'
<1> USE DEF ContractInv, ContractTypes, PhaseInv, Kind, NoBatchYet
<1> SUFFICES ASSUME ContractInv, [Next]_contractVars
             PROVE  ContractInv'
    OBVIOUS
<1>1. ASSUME NEW m \in Message, Claim(m)
      PROVE  ContractInv'
    BY <1>1 DEF Claim
<1>2. ASSUME NEW m \in Message, NEW b \in Batch, Bind(m, b)
      PROVE  ContractInv'
    BY <1>2 DEF Bind
<1>3. ASSUME NEW m \in Message, TellFailure(m)
      PROVE  ContractInv'
    BY <1>3 DEF TellFailure
<1>4. ASSUME NEW m \in Message, WriteAll(m)
      PROVE  ContractInv'
    BY <1>4 DEF WriteAll
<1>5. ASSUME NEW m \in Message, NEW kind \in Kind, Answer(m, kind)
      PROVE  ContractInv'
    BY <1>5 DEF Answer
<1>6. ASSUME NEW m \in Message, Tell(m)
      PROVE  ContractInv'
    BY <1>6 DEF Tell
<1>7. CASE UNCHANGED contractVars
    BY <1>7 DEF contractVars
<1> QED
    BY <1>1, <1>2, <1>3, <1>4, <1>5, <1>6, <1>7 DEF Next

(* After a reported failure nothing was written and nothing else is said;  *)
(* after a reported success everything was written.                        *)
THEOREM PromiseHolds == Spec => []Promise
<1>1. ContractInv => Promise
  <2> SUFFICES ASSUME ContractInv, NEW m \in Message
               PROVE  /\ "failed" \in told[m] =>
                            told[m] = {"failed"} /\ written[m] = {}
                      /\ "done" \in told[m] => written[m] = Writes[bound[m]]
    BY DEF Promise
  <2> USE DEF ContractInv, ContractTypes, PhaseInv, Kind
  <2>1. CASE phase[m] \in {"new", "claimed"}
    <3>1. told[m] \subseteq {"failed"} /\ written[m] = {}
        BY <2>1
    <3> QED
        BY <3>1
  <2>2. CASE phase[m] = "bound"
    <3>1. told[m] \subseteq {"failed"} /\ (told[m] # {} => written[m] = {})
        BY <2>2
    <3> QED
        BY <3>1
  <2>3. CASE phase[m] = "answered"
    <3>1. "failed" \notin told[m] /\ written[m] = Writes[bound[m]]
        BY <2>3
    <3> QED
        BY <3>1
  <2> QED
      BY <2>1, <2>2, <2>3
<1> QED
    BY ContractInit, ContractStep, <1>1, PTL DEF Spec
=============================================================================
