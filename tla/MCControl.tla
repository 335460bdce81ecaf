------------------------------ MODULE MCControl ------------------------------
(***************************************************************************)
(* RecordingControl on an instance whose bounded inputs are not all to be  *)
(* had at once: a behaviour has either all requests of the phone and no    *)
(* other input, or one request less and the button and maintenance too.    *)
(***************************************************************************)
EXTENDS RecordingControl

PhoneOnly == [requests |-> 0, taps |-> MaxTaps, claims |-> MaxMaint]
Everyone == [requests |-> 1, taps |-> 0, claims |-> 0]

MCInit == \E spent \in {PhoneOnly, Everyone} : InitAfter(spent)
MCSpec == MCInit /\ [][Next]_vars
==============================================================================
