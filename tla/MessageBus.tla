----------------------------- MODULE MessageBus -----------------------------
(***************************************************************************)
(* MessageBus of agent_templates.py and the subscriptions that             *)
(* AgentPubSubCoordinator makes on it.  publish takes the matching         *)
(* handlers under the lock, calls them one by one without it, and then     *)
(* queues the message under the lock again.  A type and a filter are       *)
(* sequences of segments.                                                  *)
(***************************************************************************)
EXTENDS Integers, Sequences, FiniteSets, FiniteSetsExt
CONSTANTS Agents,       \* recipients
          Types,        \* message types
          Filters,      \* type filters, <<>> for None
          Publishers,   \* threads that publish
          MaxMessages,  \* bound: messages published
          MaxSubs       \* bound: subscriptions made
ASSUME BusAssumption == MaxMessages \in Nat /\ MaxSubs \in Nat

VARIABLES subs,        \* _subscriptions
          nextId,      \* _next_id
          queues,      \* _queues
          publishing,  \* the publish call each thread is in
          sent,        \* messages published
          owed, called \* history, per message: the subscriptions taken, and those whose handler returned
bvars == <<subs, nextId, queues, publishing, sent, owed, called>>

Everybody == "everybody"     \* to_agent None: a broadcast
Messages == 1..MaxMessages
\* A coordinator's dispatch is guarded: it passes what its handler raises to on_error.
Subscription == [id : 1..MaxSubs, filter : Filters, guarded : BOOLEAN]
Quiet == [msg |-> 0, to |-> Everybody, left |-> {}]
Wild(segment) == segment \in {"*", "**"}

\* _matches_type: the segments agree up to a "**", or up to the end of the type, and what
\* the filter has in excess is wildcards.
Matches(type, filter) ==
    LET shared == Min({Len(type), Len(filter)})
        Agree(k) == \A j \in 1..k : filter[j] \in {"*", type[j]}
    IN  \/ filter \in {type, <<"*">>, <<"**">>}
        \/ \E k \in 1..shared : filter[k] = "**" /\ Agree(k - 1)
        \/ /\ shared = Len(type) /\ Agree(shared)
           /\ \A j \in (shared + 1)..Len(filter) : Wild(filter[j])

BusTypeOK ==
    /\ subs \subseteq Subscription
    /\ nextId \in 0..MaxSubs /\ sent \in 0..MaxMessages
    /\ queues \in [Agents -> Seq(Messages)]
    /\ publishing \in [Publishers -> [msg : {0} \union Messages, to : Agents \union {Everybody},
                                   left : SUBSET Subscription]]

BusInit ==
    /\ subs = {} /\ nextId = 0 /\ sent = 0
    /\ queues = [a \in Agents |-> <<>>]
    /\ publishing = [t \in Publishers |-> Quiet]
    /\ owed = [m \in Messages |-> {}] /\ called = [m \in Messages |-> {}]

Subscribe(filter, guarded) ==
    /\ nextId < MaxSubs /\ nextId' = nextId + 1
    /\ subs' = subs \union {[id |-> nextId + 1, filter |-> filter, guarded |-> guarded]}
    /\ UNCHANGED <<queues, publishing, sent, owed, called>>

Unsubscribe(s) ==
    /\ subs' = subs \ {s} /\ UNCHANGED <<nextId, queues, publishing, sent, owed, called>>

\* publish up to the release of the lock.
Publish(t, type, to) ==
    LET taken == {s \in subs : s.filter = <<>> \/ Matches(type, s.filter)} IN
    /\ publishing[t] = Quiet /\ sent < MaxMessages /\ sent' = sent + 1
    /\ publishing' = [publishing EXCEPT ![t] = [msg |-> sent + 1, to |-> to, left |-> taken]]
    /\ owed' = [owed EXCEPT ![sent + 1] = taken]
    /\ UNCHANGED <<subs, nextId, queues, called>>

\* The next handler: those without a filter come first.
Handler(t, s) ==
    /\ s \in publishing[t].left
    /\ s.filter = <<>> \/ \A other \in publishing[t].left : other.filter # <<>>

HandlerReturns(t, s) ==
    /\ Handler(t, s)
    /\ publishing' = [publishing EXCEPT ![t].left = @ \ {s}]
    /\ called' = [called EXCEPT ![publishing[t].msg] = @ \union {s}]
    /\ UNCHANGED <<subs, nextId, queues, sent, owed>>

\* A handler raises: out of publish, unless a coordinator's dispatch catches it.
HandlerRaises(t, s) ==
    /\ Handler(t, s) /\ ~s.guarded
    /\ publishing' = [publishing EXCEPT ![t] = Quiet]
    /\ UNCHANGED <<subs, nextId, queues, sent, owed, called>>

\* Faulty variants of the definition below; see CircuitBreaker.
EnqueueFirst(t) ==
    /\ publishing[t].msg # 0
    /\ IF publishing[t].to = Everybody THEN UNCHANGED queues
       ELSE queues' = [queues EXCEPT ![publishing[t].to] = Append(@, publishing[t].msg)]
    /\ publishing' = [publishing EXCEPT ![t] = Quiet]
    /\ UNCHANGED <<subs, nextId, sent, owed, called>>

\* The handlers have returned: the message is queued for its recipient.
Enqueue(t) ==
    /\ publishing[t].msg # 0 /\ publishing[t].left = {}
    /\ IF publishing[t].to = Everybody THEN UNCHANGED queues
       ELSE queues' = [queues EXCEPT ![publishing[t].to] = Append(@, publishing[t].msg)]
    /\ publishing' = [publishing EXCEPT ![t] = Quiet]
    /\ UNCHANGED <<subs, nextId, sent, owed, called>>

BusNext ==
    \/ \E filter \in Filters, guarded \in BOOLEAN : Subscribe(filter, guarded)
    \/ \E s \in subs : Unsubscribe(s)
    \/ \E t \in Publishers :
          \/ \E type \in Types, to \in Agents \union {Everybody} : Publish(t, type, to)
          \/ \E s \in publishing[t].left : HandlerReturns(t, s) \/ HandlerRaises(t, s)
          \/ Enqueue(t)
BusSpec == BusInit /\ [][BusNext]_bvars

\* A message is in a queue only once every handler subscribed at its publication has
\* returned, and it is in one queue, once: a reader of get_messages sees nothing that a
\* subscriber has yet to see, and nothing of a publish that failed (publish).
QueuedAfterHandlers ==
    \A a \in Agents : \A j \in 1..Len(queues[a]) :
       LET m == queues[a][j] IN
       /\ owed[m] \subseteq called[m]
       /\ \A b \in Agents : \A k \in 1..Len(queues[b]) : queues[b][k] = m => a = b /\ j = k
       /\ \A t \in Publishers : publishing[t].msg # m
=============================================================================
