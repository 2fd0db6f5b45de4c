------------------------------ MODULE LiveEvents ------------------------------
(***************************************************************************)
(* The live status of a project: the control pod publishes the events of   *)
(* the agent on a Redis channel (apps/control/src/sse), a handler of the   *)
(* backend relays the channel to one connection (controller/events.ts),    *)
(* and the workspace page shows what its EventSource reads                 *)
(* (WorkspacePage.tsx).  The page attaches an EventSource when a ticket    *)
(* arrives: one is asked for when the page opens, another comes with the   *)
(* answer to each prompt.  An EventSource whose connection drops retries   *)
(* with the same ticket, which Redis forgets after its time to live.       *)
(*                                                                         *)
(* A request that the client has closed is noticed by its handler later,   *)
(* and only if it listens by then.                                         *)
(***************************************************************************)
EXTENDS Integers, Sequences

CONSTANTS
    MaxEvents,      \* bound: events the agent publishes
    MaxSources,     \* bound: EventSources the page creates
    MaxFaults       \* bound: dropped connections, subscribers that do not connect, and
                    \* lost publications

ASSUME LiveAssumption ==
    MaxEvents \in Nat /\ MaxSources \in Nat \ {0} /\ MaxFaults \in Nat

Sources == 1 .. MaxSources
Requests == 1 .. MaxSources + MaxFaults     \* each is caused by a source or by a fault
Connected == 0                              \* the first line of a stream
Events == 1 .. MaxEvents

VARIABLES
    page,       \* the workspace page: open or left
    mount,      \* the ticket asked for when the page opened: asked or done
    sending,    \* a prompt is being sent
    created,    \* EventSources created so far
    current,    \* esRef: the last one, or 0
    source,     \* of each EventSource: none, connecting, open, retrying, closed, or ended
                \* by an answer: failed (401) or refused (another error status)
    shown       \* the events the page shows, as their numbers
attaching == <<page, mount, sending, created, current>>
browser == <<attaching, source, shown>>

VARIABLES
    valid,      \* the sources whose ticket is in Redis
    expired,    \* the sources whose ticket has reached its time to live
    asked,      \* requests of event streams so far
    owner,      \* of each request: its source
    handler,    \* of each request: none, auth, head, live, done, or leaked (its
                \* subscriber goes on for good)
    gone,       \* requests whose client has closed
    noticed,    \* requests whose close has reached the backend
    wire,       \* of each request: what was written and not read
    published,  \* events published so far
    faults
tickets == <<valid, expired>>
requests == <<asked, owner>>
backend == <<tickets, requests, handler, gone, noticed, wire, published, faults>>

vars == <<browser, backend>>

TypeOK ==
    /\ page \in {"open", "left"} /\ mount \in {"asked", "done"} /\ sending \in BOOLEAN
    /\ created \in 0 .. MaxSources /\ current \in 0 .. created
    /\ source \in [Sources -> {"none", "connecting", "open", "retrying", "failed",
                               "refused", "closed"}]
    /\ shown \in Seq(Events) /\ Len(shown) <= MaxEvents
    /\ valid \cup expired \subseteq 1 .. created
    /\ asked \in 0 .. MaxSources + MaxFaults
    /\ owner \in [Requests -> 0 .. created]
    /\ handler \in [Requests -> {"none", "auth", "head", "live", "done", "leaked"}]
    /\ noticed \subseteq gone /\ gone \subseteq 1 .. asked
    /\ \A r \in noticed : handler[r] # "live"
    /\ wire \in [Requests -> Seq({Connected} \cup Events)]
    /\ published \in 0 .. MaxEvents /\ faults \in 0 .. MaxFaults

Init ==
    /\ page = "open" /\ mount = "asked" /\ sending = FALSE
    /\ created = 0 /\ current = 0 /\ source = [i \in Sources |-> "none"] /\ shown = <<>>
    /\ valid = {} /\ expired = {} /\ asked = 0 /\ owner = [r \in Requests |-> 0]
    /\ handler = [r \in Requests |-> "none"] /\ gone = {} /\ noticed = {}
    /\ wire = [r \in Requests |-> <<>>] /\ published = 0 /\ faults = 0

Attached == {"connecting", "open", "retrying"}

\* The requests of source i whose connection stands.
Standing(i) == {r \in 1 .. asked : owner[r] = i /\ r \notin gone}

\* The client side of the connections R goes away, with what was not read.
HangUp(R) ==
    /\ gone' = gone \cup R
    /\ wire' = [r \in Requests |-> IF r \in R THEN <<>> ELSE wire[r]]

\* mutant: the EventSource before is left open.
KeepsOld(i) == {}

\* esRef.current?.close(): the sources that close when another is attached.
ClosedBefore(i) == {current} \ {0}

\* attachSse: the source before closes and source i sends its request.  It does so
\* whether the page is still there or not.
Attach(i) ==
    LET old == ClosedBefore(i)
    IN  /\ created' = i /\ current' = i
        /\ source' = [j \in Sources |-> IF j = i THEN "connecting"
                                        ELSE IF j \in old THEN "closed" ELSE source[j]]
        /\ HangUp(UNION {Standing(j) : j \in old})
        /\ valid' = valid \cup {i}
        /\ asked' = asked + 1
        /\ owner' = [owner EXCEPT ![asked + 1] = i]
        /\ handler' = [handler EXCEPT ![asked + 1] = "auth"]
        /\ UNCHANGED <<expired, noticed, published, faults>>

-------------------------------------------------------------------------------
\* The ticket asked for when the page opened arrives, or could not be had.
TicketArrives ==
    /\ mount = "asked" /\ mount' = "done"
    /\ \/ created < MaxSources /\ Attach(created + 1) /\ UNCHANGED <<page, sending, shown>>
       \/ UNCHANGED <<page, sending, created, current, source, shown, backend>>

\* onSend: the list of events starts again.
Send ==
    /\ page = "open" /\ ~sending /\ sending' = TRUE /\ shown' = <<>>
    /\ UNCHANGED <<page, mount, created, current, source, backend>>

\* The answer to the prompt, with a ticket when it was accepted.
SendAnswered ==
    /\ sending /\ sending' = FALSE
    /\ \/ created < MaxSources /\ Attach(created + 1) /\ UNCHANGED <<page, mount, shown>>
       \/ UNCHANGED <<page, mount, created, current, source, shown, backend>>

\* The page unmounts and closes the source it knows.
Leave ==
    /\ page = "open" /\ page' = "left"
    /\ source' = [i \in Sources |-> IF i = current THEN "closed" ELSE source[i]]
    /\ HangUp(Standing(current))
    /\ UNCHANGED <<mount, sending, created, current, shown, tickets, requests, handler,
                   noticed, published, faults>>

\* The browser reads the next line; once the page is left nothing is shown.
Read(r) ==
    /\ r \notin gone /\ wire[r] # <<>>
    /\ wire' = [wire EXCEPT ![r] = Tail(@)]
    /\ IF Head(wire[r]) = Connected
       THEN source' = [source EXCEPT ![owner[r]] = "open"] /\ UNCHANGED shown
       ELSE /\ shown' = IF page = "open" THEN Append(shown, Head(wire[r])) ELSE shown
            /\ UNCHANGED source
    /\ UNCHANGED <<attaching, tickets, requests, handler, gone, noticed, published, faults>>

\* A standing connection drops: the browser will retry.
Drops(r) ==
    /\ faults < MaxFaults /\ faults' = faults + 1
    /\ r \in 1 .. asked \ gone /\ source[owner[r]] \in {"connecting", "open"}
    /\ source' = [source EXCEPT ![owner[r]] = "retrying"]
    /\ HangUp({r})
    /\ UNCHANGED <<attaching, shown, tickets, requests, handler, noticed, published>>

\* The EventSource asks again, with the URL it was created with.
Retry(i) ==
    /\ source[i] = "retrying" /\ source' = [source EXCEPT ![i] = "connecting"]
    /\ asked' = asked + 1
    /\ owner' = [owner EXCEPT ![asked + 1] = i]
    /\ handler' = [handler EXCEPT ![asked + 1] = "auth"]
    /\ UNCHANGED <<attaching, shown, tickets, gone, noticed, wire, published, faults>>

-------------------------------------------------------------------------------
\* The time to live of a ticket ends.
Expires(i) ==
    /\ i \in 1 .. created \ expired /\ valid' = valid \ {i} /\ expired' = expired \cup {i}
    /\ UNCHANGED <<browser, requests, handler, gone, noticed, wire, published, faults>>

\* mutant: a ticket is for one request.
RedeemedOnce(i) == valid \ {i}

\* redeemSseTicket: the ticket stays.
Redeemed(i) == valid

\* An error status answers request r: its EventSource ends for good, as end.
Ends(r, end) ==
    /\ handler' = [handler EXCEPT ![r] = "done"]
    /\ source' = IF r \in gone THEN source ELSE [source EXCEPT ![owner[r]] = end]
    /\ gone' = gone \cup {r}
    /\ UNCHANGED <<wire, valid>>

\* projectEvents up to the head: the stream begins, the ticket is not there (401), or
\* redeemSseTicket or the query for the project throws (500; 404 when the query finds
\* no project).  An error needs no bound: it ends the source it answers.
Authorize(r) ==
    /\ handler[r] = "auth"
    /\ \/ /\ owner[r] \in valid
          /\ handler' = [handler EXCEPT ![r] = "head"]
          /\ wire' = IF r \in gone THEN wire ELSE [wire EXCEPT ![r] = <<Connected>>]
          /\ valid' = Redeemed(owner[r])
          /\ UNCHANGED <<source, gone>>
       \/ owner[r] \notin valid /\ Ends(r, "failed")
       \/ Ends(r, "refused")
    /\ UNCHANGED <<attaching, shown, expired, requests, noticed, published, faults>>

\* The subscriber connects and subscribes; then come the heartbeat and the listeners of
\* the close.  A close that came before is not heard.
Subscribe(r) ==
    /\ handler[r] = "head"
    /\ handler' = [handler EXCEPT ![r] = IF r \in noticed THEN "leaked" ELSE "live"]
    /\ UNCHANGED <<browser, tickets, requests, gone, noticed, wire, published, faults>>

\* connect or subscribe throws: the head is sent, so the connection is destroyed.  In the
\* second case the subscriber stays connected.
SetupFails(r) ==
    /\ faults < MaxFaults /\ faults' = faults + 1
    /\ handler[r] = "head"
    /\ \E h \in {"done", "leaked"} : handler' = [handler EXCEPT ![r] = h]
    /\ source' = IF r \in gone THEN source ELSE [source EXCEPT ![owner[r]] = "retrying"]
    /\ HangUp({r})
    /\ UNCHANGED <<attaching, shown, tickets, requests, noticed, published>>

\* mutant: cleanup is not registered.
NoCleanup(phase) == phase

\* cleanup: the subscriber quits and the heartbeat stops, once they are set up.
AfterClose(phase) == IF phase = "live" THEN "done" ELSE phase

\* The close of the request reaches the backend; cleanup runs if it is listened for.
CloseNoticed(r) ==
    /\ r \in gone \ noticed /\ noticed' = noticed \cup {r}
    /\ handler' = [handler EXCEPT ![r] = AfterClose(@)]
    /\ UNCHANGED <<browser, tickets, requests, gone, wire, published, faults>>

\* sendSSEMessage: Redis hands the event to the handlers that are subscribed, and to
\* nobody else; a publication that fails is logged.
Publish ==
    /\ published < MaxEvents /\ published' = published + 1
    /\ \/ /\ wire' = [r \in Requests |-> IF handler[r] = "live" /\ r \notin gone
                                         THEN Append(wire[r], published + 1) ELSE wire[r]]
          /\ UNCHANGED faults
       \/ faults < MaxFaults /\ faults' = faults + 1 /\ UNCHANGED wire
    /\ UNCHANGED <<browser, tickets, requests, handler, gone, noticed>>

Browser == (\E i \in Sources : Retry(i)) \/ (\E r \in Requests : Read(r))
Handlers == \E r \in Requests : Authorize(r) \/ Subscribe(r) \/ CloseNoticed(r)

Next ==
    \/ TicketArrives \/ Send \/ SendAnswered \/ Leave \/ Publish
    \/ Browser \/ Handlers
    \/ \E i \in Sources : Expires(i)
    \/ \E r \in Requests : Drops(r) \/ SetupFails(r)

Spec == Init /\ [][Next]_vars

\* The browser reads and retries, the handlers go on.  No user need send or leave, no
\* event be published, no ticket expire.
FairSpec == Spec /\ WF_vars(Browser) /\ WF_vars(Handlers)

-------------------------------------------------------------------------------
\* The page has one stream, the last one it attached, even when tickets arrive in an
\* unexpected order or after it was left (attachSse), and what it shows is in the order
\* of publication, each event once: a connection that is retried or replaced does not
\* repeat what the one before has shown.
OneOrderedStream ==
    /\ \A i \in Sources : source[i] \in Attached => i = current
    /\ \A j, k \in DOMAIN shown : j < k => shown[j] < shown[k]

\* A source that lost its connection gets it back, by its retries with the same ticket
\* ("can be reused for EventSource reconnects", sseTicket.ts), unless the ticket has
\* expired, the page has closed or replaced the source, or a retry was answered with an
\* error of Redis or the database: the browser does not try again after that.
DroppedReconnects ==
    \A i \in Sources :
        source[i] = "retrying" ~> (source[i] \in {"open", "closed", "refused"} \/ i \in expired)

\* WorkspacePage.tsx, onerror: "EventSource retries", and the note under the prompt says
\* that it does: the source of an open page is not one that an answer has ended.
ErrorsAreRetried ==
    page = "open" /\ current # 0 => source[current] \notin {"failed", "refused"}
=============================================================================
