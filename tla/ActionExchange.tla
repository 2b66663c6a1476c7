---------------------------- MODULE ActionExchange ----------------------------
(***************************************************************************)
(* Requests and answers between the Python bridge and the DLL: one call of  *)
(* ActionDispatcher._execute_game_action is an element of Calls.  It        *)
(* registers a future under its request id, sends the action, and waits     *)
(* with a timeout; IpcClient's reader matches each action_result to a       *)
(* future by id and keeps the unmatched ones in a backlog.  The DLL drains  *)
(* g_inboundQueue in order and answers each request once, to whichever      *)
(* client is connected by then.  An answer is named by the call it answers. *)
(***************************************************************************)
EXTENDS Naturals, SequencesExt

CONSTANTS
    Calls,        \* the calls of _execute_game_action
    Ids, IdOf,    \* request ids, and the id each call is given
    None,         \* no call, or no answer yet
    MaxBacklog,   \* 100 in ipc_client.py:316
    PruneCount,   \* 50 in ipc_client.py:317
    MaxConnections \* bound: the connections the bridge makes

\* What a call returns when it has no answer, and what it holds before.
Words == {"none", "no_reply", "send_failed", "cancelled"}

ASSUME ExchangeAssumption ==
    /\ IdOf \in [Calls -> Ids] /\ None \notin Calls /\ Calls \cap Words = {}
    /\ MaxBacklog \in Nat /\ PruneCount \in 1 .. (MaxBacklog + 1)
    /\ MaxConnections \in Nat \ {0}

VARIABLES
    at,          \* where each call is
    outcome,     \* what it returned to the bridge
    future,      \* the answer its future holds
    pending,     \* _pending_action_results: the call registered under an id
    backlog,     \* _action_result_backlog, oldest key first
    connected,   \* the pipe and the reader task are up
    connection,  \* the number of the connection
    inbound,     \* the pipe's requests and g_inboundQueue, oldest first
    replies      \* the action results queued for the client or in the pipe

exchangeVars ==
    <<at, outcome, future, pending, backlog, connected, connection, inbound, replies>>

ExchangeInit ==
    /\ at = [c \in Calls |-> "idle"]
    /\ outcome = [c \in Calls |-> "none"]
    /\ future = [c \in Calls |-> None]
    /\ pending = [i \in Ids |-> None]
    /\ backlog = <<>>
    /\ connected = TRUE /\ connection = 1
    /\ inbound = <<>> /\ replies = <<>>

InFlight(c) == at[c] \in {"sending", "waiting"}

-----------------------------------------------------------------------------
(* The bridge's calls.                                                      *)

LateFor(id) == {i \in DOMAIN backlog : IdOf[backlog[i]] = id}

Popped(i) == RemoveAt(backlog, i)

RegisteredNever(c) == pending   \* mutant: the future is only registered when waited for
Registered(c) == [pending EXCEPT ![IdOf[c]] = c]

\* expect_action_result.  The calls that share a fixed id are awaited one after
\* the other by the same loop.
Expect(c) ==
    /\ at[c] = "idle"
    /\ \A d \in Calls : InFlight(d) => IdOf[d] # IdOf[c]
    /\ at' = [at EXCEPT ![c] = "sending"]
    /\ \/ /\ LateFor(IdOf[c]) = {}
          /\ pending' = Registered(c)
          /\ UNCHANGED <<future, backlog>>
       \/ \E i \in LateFor(IdOf[c]) :
             /\ future' = [future EXCEPT ![c] = backlog[i]]
             /\ backlog' = Popped(i)
             /\ UNCHANGED pending
    /\ UNCHANGED <<outcome, connected, connection, inbound, replies>>

Ends(c, result) ==
    /\ at' = [at EXCEPT ![c] = "done"]
    /\ outcome' = [outcome EXCEPT ![c] = result]

SendAction(c) ==
    /\ at[c] = "sending" /\ connected
    /\ at' = [at EXCEPT ![c] = "waiting"]
    /\ inbound' = Append(inbound, c)
    /\ UNCHANGED <<outcome, future, pending, backlog, connected, connection, replies>>

ForgottenAll(c) == [i \in Ids |-> None]   \* mutant: every pending future goes
Forgotten(c) == [pending EXCEPT ![IdOf[c]] = IF @ = c THEN None ELSE @]

\* The write raises, and forget_action_result withdraws the future.
SendFails(c) ==
    /\ at[c] = "sending" /\ ~connected
    /\ Ends(c, "send_failed")
    /\ pending' = Forgotten(c)
    /\ UNCHANGED <<future, backlog, connected, connection, inbound, replies>>

Returns(c) ==
    /\ at[c] = "waiting" /\ future[c] # None
    /\ Ends(c, future[c])
    /\ pending' = Forgotten(c)
    /\ UNCHANGED <<future, backlog, connected, connection, inbound, replies>>

\* The deadline passes.  The observation poll cancels its waiter even if the
\* answer has just been set (action_dispatcher.py:372-378).
TimesOut(c) ==
    /\ at[c] = "waiting"
    /\ Ends(c, "no_reply")
    /\ pending' = Forgotten(c)
    /\ UNCHANGED <<future, backlog, connected, connection, inbound, replies>>

-----------------------------------------------------------------------------
(* The reader task, the DLL and the connection.                             *)

Pruned(b) == IF Len(b) > MaxBacklog THEN SubSeq(b, PruneCount + 1, Len(b)) ELSE b

\* A dict keeps the place of a key it already has.
Kept(r) ==
    IF LateFor(IdOf[r]) = {} THEN Append(backlog, r)
    ELSE [i \in DOMAIN backlog |-> IF i \in LateFor(IdOf[r]) THEN r ELSE backlog[i]]

Unresolved(c) == c # None /\ future[c] = None

AnyUnresolved(r) ==   \* mutant: the answer goes to whoever waits
    IF \E c \in Calls : InFlight(c) /\ Unresolved(c)
    THEN CHOOSE c \in Calls : InFlight(c) /\ Unresolved(c) ELSE None
Addressee(r) == pending[IdOf[r]]

\* _reader_loop and _deliver_action_result.
Deliver ==
    /\ connected /\ replies # <<>>
    /\ replies' = Tail(replies)
    /\ LET r == Head(replies) IN
       \/ /\ Unresolved(Addressee(r))
          /\ future' = [future EXCEPT ![Addressee(r)] = r]
          /\ UNCHANGED backlog
       \/ /\ ~Unresolved(Addressee(r))
          /\ backlog' = Pruned(Kept(r))
          /\ UNCHANGED future
    /\ UNCHANGED <<at, outcome, pending, connected, connection, inbound>>

\* ProcessInboundMessages and Execute: every path answers once, and the answer
\* is dropped when no client is connected (IpcServer.cpp:282).
ExecuteRequest ==
    /\ inbound # <<>>
    /\ inbound' = Tail(inbound)
    /\ replies' = IF connected THEN Append(replies, Head(inbound)) ELSE replies
    /\ UNCHANGED <<at, outcome, future, pending, backlog, connected, connection>>

\* The pipe breaks: the reader task ends and leaves the futures alone, requests
\* not yet read from the pipe are lost, and the DLL clears its outbound queue.
PipeBreaks ==
    /\ connected
    /\ connected' = FALSE
    /\ replies' = <<>>
    /\ \E n \in 0 .. Len(inbound) : inbound' = SubSeq(inbound, 1, n)
    /\ UNCHANGED <<at, outcome, future, pending, backlog, connection>>

\* close_clients cancels the waiting futures; start_runtime makes a new
\* IpcClient, with empty tables, over the DLL's old g_inboundQueue.
Reconnect ==
    /\ ~connected /\ connection < MaxConnections
    /\ connected' = TRUE /\ connection' = connection + 1
    /\ at' = [c \in Calls |-> IF InFlight(c) THEN "done" ELSE at[c]]
    /\ outcome' = [c \in Calls |-> IF InFlight(c) THEN "cancelled" ELSE outcome[c]]
    /\ pending' = [i \in Ids |-> None]
    /\ backlog' = <<>>
    /\ UNCHANGED <<future, inbound, replies>>

-----------------------------------------------------------------------------

ExchangeNext ==
    \/ \E c \in Calls :
          Expect(c) \/ SendAction(c) \/ SendFails(c) \/ Returns(c) \/ TimesOut(c)
    \/ Deliver \/ ExecuteRequest \/ PipeBreaks \/ Reconnect

ExchangeSpec == ExchangeInit /\ [][ExchangeNext]_exchangeVars

\* The event loop and the DLL's bridge loop are scheduled and handlers end.
\* No timeout is needed for a call to end.
ExchangeFairSpec ==
    /\ ExchangeSpec
    /\ WF_exchangeVars(Deliver) /\ WF_exchangeVars(ExecuteRequest)
    /\ \A c \in Calls : WF_exchangeVars(SendAction(c)) /\ WF_exchangeVars(Returns(c))

-----------------------------------------------------------------------------

\* Type invariant; the backlog keeps its limit and one answer per id, and a
\* pending entry belongs to a call under way with that id.
TypeOK ==
    /\ at \in [Calls -> {"idle", "sending", "waiting", "done"}]
    /\ outcome \in [Calls -> Calls \cup Words]
    /\ future \in [Calls -> Calls \cup {None}]
    /\ pending \in [Ids -> Calls \cup {None}]
    /\ \A i \in Ids : pending[i] # None => IdOf[pending[i]] = i /\ InFlight(pending[i])
    /\ backlog \in Seq(Calls) /\ Len(backlog) <= MaxBacklog
    /\ \A i, j \in DOMAIN backlog : IdOf[backlog[i]] = IdOf[backlog[j]] => i = j
    /\ connected \in BOOLEAN /\ connection \in 1 .. MaxConnections
    /\ inbound \in Seq(Calls) /\ replies \in Seq(Calls)

\* Calls with an id of their own, as uuid4 gives (action_dispatcher.py:227).
Unique(c) == \A d \in Calls : IdOf[d] = IdOf[c] => d = c

\* A call whose id is never used again returns the answer to that call and to no
\* other, though answers come late, after a timeout, or in a later connection.
AnswerIsOwn == \A c \in Calls : Unique(c) /\ outcome[c] \in Calls => outcome[c] = c

\* ipc_client.py:262, "before sending": because the future is registered
\* first, an answer reaches the backlog only when its call has ended or already
\* holds an answer, so pruning it can never cost a live call the answer it needs.
OnlyLateAnswersKept ==
    \A i \in DOMAIN backlog : InFlight(backlog[i]) => future[backlog[i]] # None

\* A call that was sent ends without its timeout unless the pipe breaks: no
\* answer is lost between the DLL, the reader, the table and the backlog.
AnsweredUnlessCut ==
    \A c \in Calls : (at[c] = "waiting") ~> (at[c] = "done" \/ ~connected)
=============================================================================
