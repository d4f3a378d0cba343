-------------------------- MODULE ThresholdService --------------------------
(***************************************************************************)
(* What the four programs promise together, without calls, messages,       *)
(* processes or faults: an authority that replaces its parameters and      *)
(* issues shares of the current ones, and verifiers that each give one     *)
(* verdict for good.  A verdict "accepted" takes, in one atomic step,      *)
(* `threshold' shares of one parameter set, issued for different IDs.      *)
(***************************************************************************)
EXTENDS Naturals

CONSTANTS Verifier, ID, ZeroId, threshold

VARIABLES
    epoch,      \* the current parameter set, 0 before there is one
    shares,     \* the shares issued so far
    verdict     \* of each verifier

vars == <<epoch, shares, verdict>>

Init ==
    /\ epoch = 0
    /\ shares = {}
    /\ verdict = [v \in Verifier |-> "none"]

NewParameters ==
    /\ epoch' = epoch + 1
    /\ UNCHANGED <<shares, verdict>>

Issue(id) ==
    /\ epoch > 0
    /\ shares' = shares \cup {[kind |-> "share", ID |-> id, epoch |-> epoch]}
    /\ UNCHANGED <<epoch, verdict>>

(* Shares that interpolate to the secret of parameter set e. *)
Sufficient(share, e) ==
    /\ \A k \in 1 .. threshold : share[k].epoch = e /\ share[k].ID # ZeroId
    /\ \A k, l \in 1 .. threshold : k # l => share[k].ID # share[l].ID

Decide(v, answer) ==
    /\ verdict[v] = "none"
    /\ verdict' = [verdict EXCEPT ![v] = answer]
    /\ UNCHANGED <<epoch, shares>>

Accept(v) ==
    /\ \E share \in [1 .. threshold -> shares] : \E e \in 1 .. epoch : Sufficient(share, e)
    /\ Decide(v, "accepted")

(* Shares were combined and refused. *)
Reject(v) == shares # {} /\ Decide(v, "rejected")

(* Too few shares were combined, or values that cannot be combined, and    *)
(* the answer means nothing.                                               *)
Fail(v) == Decide(v, "undefined")

Next ==
    \/ NewParameters
    \/ \E id \in ID : Issue(id)
    \/ \E v \in Verifier : Accept(v) \/ Reject(v) \/ Fail(v)

Spec == Init /\ [][Next]_vars
=============================================================================
