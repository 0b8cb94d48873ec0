--------------------------- MODULE RequestChannel ---------------------------
(***************************************************************************)
(* What a caller of Omegon may rely on, whatever carries the request: a    *)
(* call is opened once, runs at Omegon at most once, and ends with one     *)
(* answer.  "accepted" or "refused" is only said of a call that ran;       *)
(* "failed" says nothing: such a call may have run, or may still run.      *)
(***************************************************************************)
CONSTANT Calls

VARIABLES answer, ran

ChannelInit ==
    /\ answer = [c \in Calls |-> "none"]
    /\ ran = [c \in Calls |-> 0]

OpenCall(c) ==
    /\ answer[c] = "none"
    /\ answer' = [answer EXCEPT ![c] = "open"]
    /\ UNCHANGED ran

RunCall(c) ==
    /\ answer[c] # "none"
    /\ ran[c] = 0
    /\ ran' = [ran EXCEPT ![c] = 1]
    /\ UNCHANGED answer

AnswerCall(c) ==
    /\ answer[c] = "open"
    /\ \E a \in {"accepted", "refused", "failed"} :
          /\ a # "failed" => ran[c] = 1
          /\ answer' = [answer EXCEPT ![c] = a]
    /\ UNCHANGED ran

ChannelNext == \E c \in Calls : OpenCall(c) \/ RunCall(c) \/ AnswerCall(c)

\* What never happens: a second run, a second answer, an answer that is not so.
ChannelSafety == ChannelInit /\ [][ChannelNext]_<<answer, ran>>

\* An answer comes, even when Omegon is gone for good.
ChannelSpec ==
    /\ ChannelSafety
    /\ \A c \in Calls : WF_answer(AnswerCall(c))
=============================================================================
