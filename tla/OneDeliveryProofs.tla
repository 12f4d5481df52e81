--------------------------- MODULE OneDeliveryProofs ---------------------------
(***************************************************************************)
(* The promise of OneDelivery keeps its own invariant.                     *)
(***************************************************************************)
EXTENDS OneDelivery, TLAPS

\* Whatever the ledger's rows do, a message that external-message-dispatch.ts
\* leaves open to another attempt was never taken by the provider, and one it
\* shows as sent was: what the promise MessageDispatch is checked to implement
\* amounts to.
THEOREM PromiseIsKept == Spec => []NeverTwice
<1>1. Init => NeverTwice
  BY DEF Init, NeverTwice
<1>2. NeverTwice /\ [Next]_vars => NeverTwice'
  <2> SUFFICES ASSUME NeverTwice, [Next]_vars PROVE NeverTwice'
    OBVIOUS
  <2>1. CASE Begin
    BY <2>1 DEF Begin, NeverTwice
  <2>2. CASE Accept
    BY <2>2 DEF Accept, NeverTwice
  <2>3. CASE Refuse
    BY <2>3 DEF Refuse, NeverTwice
  <2>4. CASE Confirm
    BY <2>4 DEF Confirm, NeverTwice
  <2>5. CASE Suspect
    BY <2>5 DEF Suspect, NeverTwice
  <2>6. CASE UNCHANGED vars
    BY <2>6 DEF vars, NeverTwice
  <2> QED
    BY <2>1, <2>2, <2>3, <2>4, <2>5, <2>6 DEF Next
<1> QED
  BY <1>1, <1>2, PTL DEF Spec
=============================================================================
