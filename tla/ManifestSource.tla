--------------------------- MODULE ManifestSource ---------------------------
(***************************************************************************)
(* What the resolver promises those that ask for a site's manifest,        *)
(* without saying how it is found: an answer is given in one step, and is  *)
(* either what is kept at that moment, or the result of a lookup, which is *)
(* kept from then on in the place of any other: a valid manifest that the  *)
(* author has published, or none.  What is kept is forgotten after a time. *)
(* Resolver implements this module, and Site relies on it.                 *)
(***************************************************************************)
CONSTANTS Events,  \* the signed manifest events of the site
          Valid,   \* the valid ones
          Procs,   \* requests for the site
          Nil      \* the answer that there is none

VARIABLES known,   \* the events published so far
          kept,    \* {}, or the set of the answer that is kept
          busy,    \* the requests that wait for their answer
          answer   \* answer[p]: what p was answered, "none" while it waits

sourceVars == <<known, kept, busy, answer>>

SourceInit == /\ known \in SUBSET Events
              /\ kept = {}
              /\ busy = {}
              /\ answer = [p \in Procs |-> "none"]

\* A request asks for the manifest.
Ask(p) == /\ p \notin busy
          /\ busy' = busy \union {p}
          /\ answer' = [answer EXCEPT ![p] = "none"]
          /\ UNCHANGED <<known, kept>>

Answered(p, a) == /\ p \in busy
                  /\ busy' = busy \ {p}
                  /\ answer' = [answer EXCEPT ![p] = a]
                  /\ UNCHANGED known

\* The answer is the one that is kept.
AnswerKept(p) == \E a \in kept : Answered(p, a) /\ UNCHANGED kept

\* The answer was looked up, and is kept.
AnswerFound(p) == \E a \in (known \intersect Valid) \union {Nil} : Answered(p, a) /\ kept' = {a}

\* What is kept is forgotten.
Forget == kept # {} /\ kept' = {} /\ UNCHANGED <<known, busy, answer>>

\* The author publishes events.
Spread == known' \in SUBSET Events /\ known \subseteq known' /\ UNCHANGED <<kept, busy, answer>>

SourceNext == \/ \E p \in Procs : Ask(p) \/ AnswerKept(p) \/ AnswerFound(p)
              \/ Forget \/ Spread

SourceSpec == SourceInit /\ [][SourceNext]_sourceVars
=============================================================================
