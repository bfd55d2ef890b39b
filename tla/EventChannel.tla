----------------------------- MODULE EventChannel -----------------------------
(***************************************************************************)
(* What the way from the bot's dispatches to the streams of one session    *)
(* promises, however it is built: it is one queue.  A dispatch puts its    *)
(* pieces and one last event at the end of it.  A request may throw away a *)
(* beginning of the queue before it shows anything and before its own      *)
(* dispatch has begun; then it shows events from the head, up to a last    *)
(* event, with no answer that was not preceded by text.  No event leaves   *)
(* the queue in another way while the times are calm, and the calm, once   *)
(* gone, does not come back.                                               *)
(***************************************************************************)
EXTENDS Naturals, Sequences

CONSTANT Turns  \* the chat requests, and the dispatch of each

VARIABLES
    pending,    \* the events sent and neither shown nor gone, oldest first
    shown,      \* per request: the events its client was sent
    dropped,    \* per request: the events it threw away
    said,       \* per dispatch: the kinds of its pieces
    over,       \* the dispatches that have ended
    calm        \* no command has failed and the bot has not left

channelVars == <<pending, shown, dropped, said, over, calm>>

Queued(t, kind) == Append(pending, [of |-> t, n |-> Len(said[t]), kind |-> kind])
HasText(s) == \E i \in 1..Len(s) : s[i].kind = "chunk"
Answered(s) == \E i \in 1..Len(s) : s[i].kind \in {"done", "blank", "error"}

ChannelInit ==
    /\ pending = <<>> /\ shown = [t \in Turns |-> <<>>]
    /\ dropped = [t \in Turns |-> {}] /\ said = [t \in Turns |-> <<>>]
    /\ over = {} /\ calm = TRUE

Send(t, kind) ==
    /\ t \notin over
    /\ pending' = Queued(t, kind)
    /\ said' = [said EXCEPT ![t] = Append(said[t], kind)]
    /\ UNCHANGED <<shown, dropped, over, calm>>

(* In calm, only a dispatch without text ends in silence.                  *)
End(t) ==
    /\ t \notin over /\ over' = over \cup {t}
    /\ \/ \E kind \in {"done", "blank", "error"} : pending' = Queued(t, kind)
       \/ (calm => \A i \in 1..Len(said[t]) : said[t][i] # "chunk") /\ UNCHANGED pending
    /\ UNCHANGED <<shown, dropped, said, calm>>

Discard(t) ==
    /\ shown[t] = <<>> /\ dropped[t] = {}
    /\ said[t] = <<>> /\ t \notin over
    /\ \E i \in 0..Len(pending) :
        /\ dropped' = [dropped EXCEPT ![t] = {pending[j] : j \in 1..i}]
        /\ pending' = SubSeq(pending, i + 1, Len(pending))
    /\ UNCHANGED <<shown, said, over, calm>>

Show(t) ==
    /\ pending # <<>> /\ pending' = Tail(pending)
    /\ ~Answered(shown[t])
    /\ LET e == Head(pending)
           text == [e EXCEPT !.kind = "chunk"]
       IN  \/ /\ e.kind = "done" => HasText(shown[t])
              /\ shown' = [shown EXCEPT ![t] = Append(shown[t], e)]
           \/ /\ e.kind = "done"
              /\ shown' = [shown EXCEPT ![t] = Append(Append(shown[t], text), e)]
    /\ UNCHANGED <<dropped, said, over, calm>>

(* What is lost at one time was next to each other in the queue.           *)
Lose ==
    /\ calm' = FALSE
    /\ \E i \in 0..Len(pending) : \E j \in i..Len(pending) :
           pending' = SubSeq(pending, 1, i) \o SubSeq(pending, j + 1, Len(pending))
    /\ UNCHANGED <<shown, dropped, said, over>>

ChannelNext ==
    \/ \E t \in Turns : \/ End(t) \/ Discard(t) \/ Show(t)
                        \/ \E kind \in {"chunk", "note"} : Send(t, kind)
    \/ Lose

ChannelSpec == ChannelInit /\ [][ChannelNext]_channelVars
===============================================================================
