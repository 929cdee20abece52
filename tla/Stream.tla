------------------------------- MODULE Stream -------------------------------
(***************************************************************************)
(* LLM.Chat: the request, the goroutine that reads the provider's stream   *)
(* and the unbuffered channel it sends tokens on, for each of the model    *)
(* calls a command makes.  The provider may answer, refuse, hang, report   *)
(* an error or just stop sending; Ctrl-C, a timeout or a caller that is    *)
(* done cancels the context of a call.                                     *)
(***************************************************************************)
CONSTANT Calls  \* the model calls of a command

VARIABLES
    call,       \* call[c]: the goroutine of call c, its token, its context
    interrupted \* Ctrl-C: the context every other one derives from is done

\* ending: how the stream ended, or that a token of it was never received.
Call == [at : {"none", "request", "refused", "read", "offer", "closed"},
         token : {"none", "text", "thinking", "done", "error"},
         ending : {"open", "stop", "failed", "silent", "cut"}, cancelled : BOOLEAN]
NoCall == [at |-> "none", token |-> "none", ending |-> "open", cancelled |-> FALSE]

StreamTypeOK == call \in [Calls -> Call] /\ interrupted \in BOOLEAN
StreamInit == call = [c \in Calls |-> NoCall] /\ interrupted = FALSE

\* The call made, with calls already made left as they are.
Chat(c) == call' = [call EXCEPT ![c] = [NoCall EXCEPT !.at = "request", !.cancelled = interrupted]]

\* Its caller returns: the deferred cancel.
Cancel(c) == call' = [call EXCEPT ![c].cancelled = TRUE]

\* Chat returns the channel, or an error: another status than 200, a
\* transport error, a context already done.
Accepted(c) ==
    /\ call[c].at = "request"
    /\ call' = [call EXCEPT ![c].at = "read"]
Refused(c) ==
    /\ call[c].at = "request"
    /\ call' = [call EXCEPT ![c].at = "refused", ![c].ending = "failed"]

Offering(c, token, ending) ==
    [call[c] EXCEPT !.at = "offer", !.token = token, !.ending = ending]

\* The next line of the stream: text, reasoning, the terminator, an error
\* event or a line that does not parse.
ReadText(c) ==
    /\ call[c].at = "read"
    /\ call' = [call EXCEPT ![c] = Offering(c, "text", "open")]
ReadThinking(c) ==
    /\ call[c].at = "read"
    /\ call' = [call EXCEPT ![c] = Offering(c, "thinking", "open")]
ReadStop(c) ==
    /\ call[c].at = "read"
    /\ call' = [call EXCEPT ![c] = Offering(c, "done", "stop")]
ReadError(c) ==
    /\ call[c].at = "read"
    /\ call' = [call EXCEPT ![c] = Offering(c, "error", "failed")]

\* The stream ends with neither: the channel is closed, no token is sent.
ReadNothing(c) ==
    /\ call[c].at = "read"
    /\ call' = [call EXCEPT ![c].at = "closed", ![c].ending = "silent"]

\* A done context fails the request and the read.
Interrupt(c) == call[c].cancelled /\ (Refused(c) \/ ReadError(c))

\* Mutant: a plain send, with no regard to the context.
YieldNever(c) == FALSE /\ UNCHANGED call

\* sendToken, when the context is done and nobody need be receiving.
Yield(c) ==
    /\ call[c].at = "offer" /\ call[c].cancelled
    /\ call' = [call EXCEPT ![c].at = "closed", ![c].token = "none",
                           ![c].ending = IF @ = "open" THEN "cut" ELSE @]

\* sendToken, when the caller receives: on to the next line, if any.
Received(c) ==
    [call[c] EXCEPT !.at = IF call[c].token \in {"done", "error"} THEN "closed" ELSE "read",
                    !.token = "none"]

Provider(c) ==
    \/ Accepted(c) \/ Refused(c)
    \/ ReadText(c) \/ ReadThinking(c) \/ ReadStop(c) \/ ReadError(c) \/ ReadNothing(c)

\* Ctrl-C reaches every call under way.
CtrlC ==
    /\ ~interrupted
    /\ interrupted' = TRUE
    /\ call' = [c \in Calls |-> [call[c] EXCEPT !.cancelled = @ \/ call[c].at # "none"]]

-----------------------------------------------------------------------------
\* A goroutine whose call was cancelled ends, whatever its provider and its
\* caller do: none is left blocked on its channel with the response open
\* (stream.go:10-14, ask.go:548-550).
CancelledCallsEnd ==
    \A c \in Calls : call[c].cancelled ~> call[c].at \in {"none", "refused", "closed"}
=============================================================================
