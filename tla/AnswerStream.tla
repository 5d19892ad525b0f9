---------------------------- MODULE AnswerStream ----------------------------
(***************************************************************************)
(* What a channel of answers promises to each of its readers, whatever     *)
(* carries it: a reader sees the items that were sent since it joined, in  *)
(* order and without a hole, until it is told once that it is over.  It is *)
(* told that the answer is complete only at the broker's end marker, so    *)
(* only when it has seen all that came before.                             *)
(***************************************************************************)
EXTENDS Naturals, Sequences

CONSTANTS
    Reader,   \* the readers a channel may get
    Item,     \* what may be sent
    EndMarker \* the item by which the broker ends its answer

VARIABLES
    sent,     \* everything sent on the channel
    open,     \* whether more may be sent
    start,    \* how much had been sent when each reader joined
    got,      \* what each reader was given
    verdict   \* what each reader knows of the whole: see Verdict

vars == <<sent, open, start, got, verdict>>

\* "absent" is a reader that never joined, "over" one that was told that it
\* will get no more, for any reason but the end of the answer.
Verdict == {"absent", "reading", "complete", "over"}

Init ==
    /\ sent = <<>>
    /\ open = TRUE
    /\ start = [r \in Reader |-> 0]
    /\ got = [r \in Reader |-> <<>>]
    /\ \E r \in Reader : verdict = [s \in Reader |-> IF s = r THEN "reading" ELSE "absent"]

Send(i) ==
    /\ open
    /\ sent' = Append(sent, i)
    /\ UNCHANGED <<open, start, got, verdict>>

Close ==
    /\ open' = FALSE
    /\ UNCHANGED <<sent, start, got, verdict>>

Join(r) ==
    /\ verdict[r] = "absent"
    /\ verdict' = [verdict EXCEPT ![r] = "reading"]
    /\ start' = [start EXCEPT ![r] = Len(sent)]
    /\ UNCHANGED <<sent, open, got>>

\* The position of the item a reader must be given next.
NextFor(r) == start[r] + Len(got[r]) + 1

Read(r) ==
    /\ verdict[r] = "reading"
    /\ NextFor(r) <= Len(sent)
    /\ got' = [got EXCEPT ![r] = Append(@, sent[NextFor(r)])]
    /\ UNCHANGED <<sent, open, start, verdict>>

Complete(r) ==
    /\ verdict[r] = "reading"
    /\ NextFor(r) <= Len(sent)
    /\ sent[NextFor(r)] = EndMarker
    /\ verdict' = [verdict EXCEPT ![r] = "complete"]
    /\ UNCHANGED <<sent, open, start, got>>

GiveUp(r) ==
    /\ verdict[r] = "reading"
    /\ verdict' = [verdict EXCEPT ![r] = "over"]
    /\ UNCHANGED <<sent, open, start, got>>

Next ==
    \/ \E i \in Item : Send(i)
    \/ Close
    \/ \E r \in Reader : Join(r) \/ Read(r) \/ Complete(r) \/ GiveUp(r)

Spec == Init /\ [][Next]_vars
-----------------------------------------------------------------------------
\* What the promise comes to: a reader was given the stretch of the channel
\* that begins where it joined, and one that believes the answer complete
\* stands before its end marker (AsyncSubscription, next and poll_next).
NoHole ==
    \A r \in Reader :
        /\ start[r] + Len(got[r]) <= Len(sent)
        /\ \A n \in 1..Len(got[r]) : got[r][n] = sent[start[r] + n]
        /\ verdict[r] = "complete" => /\ NextFor(r) <= Len(sent)
                                      /\ sent[NextFor(r)] = EndMarker
=============================================================================
