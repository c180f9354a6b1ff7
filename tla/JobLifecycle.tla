----------------------------- MODULE JobLifecycle -----------------------------
(***************************************************************************)
(* What the job store promises about a job to whoever opened it, with the  *)
(* tables abstracted away: a job is live from its open to its close, at    *)
(* most one member holds it at a time, it changes hands only through the   *)
(* bank queue, and it is settled once, with a verdict, for good.           *)
(***************************************************************************)
CONSTANTS Jobs, Members, NoMember, Verdicts, NoVerdict

VARIABLES
    phase,      \* "unopened", "live" or "settled"
    holder,     \* the member that holds the job, or NoMember: the queue
    verdict     \* the verdict it was settled with

lifeVars == <<phase, holder, verdict>>

Init ==
    /\ phase = [j \in Jobs |-> "unopened"]
    /\ holder = [j \in Jobs |-> NoMember]
    /\ verdict = [j \in Jobs |-> NoVerdict]

Begin(j, m) ==
    /\ phase[j] = "unopened"
    /\ phase' = [phase EXCEPT ![j] = "live"]
    /\ holder' = [holder EXCEPT ![j] = m]
    /\ UNCHANGED verdict

Take(j, m) ==
    /\ phase[j] = "live" /\ holder[j] = NoMember
    /\ holder' = [holder EXCEPT ![j] = m]
    /\ UNCHANGED <<phase, verdict>>

\* A member gives back every live job it holds at once.
GiveBack(m) ==
    /\ holder' = [j \in Jobs |-> IF phase[j] = "live" /\ holder[j] = m
                                 THEN NoMember ELSE holder[j]]
    /\ UNCHANGED <<phase, verdict>>

Settle(j, v) ==
    /\ phase[j] = "live"
    /\ phase' = [phase EXCEPT ![j] = "settled"]
    /\ verdict' = [verdict EXCEPT ![j] = v]
    /\ UNCHANGED holder

Next ==
    \/ \E j \in Jobs, m \in Members \cup {NoMember} : Begin(j, m)
    \/ \E j \in Jobs, m \in Members : Take(j, m)
    \/ \E m \in Members : GiveBack(m)
    \/ \E j \in Jobs, v \in Verdicts : Settle(j, v)

Spec == Init /\ [][Next]_lifeVars
=============================================================================
