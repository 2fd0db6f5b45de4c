--------------------------- MODULE LiveEventsProofs ---------------------------
(***************************************************************************)
(* Theorems about LiveEvents, for any number of events, event sources and  *)
(* faults: the page has one stream and shows its events in order and once. *)
(***************************************************************************)
EXTENDS LiveEvents, TLAPS

-----------------------------------------------------------------------------
(* The strengthening *)

States == {"none", "connecting", "open", "retrying", "failed", "refused", "closed"}
Handling == {"none", "auth", "head", "live", "done", "leaked"}

\* TypeOK, side by side.
BrowserType ==
    /\ page \in {"open", "left"} /\ mount \in {"asked", "done"} /\ sending \in BOOLEAN
    /\ created \in 0 .. MaxSources /\ current \in 0 .. created
    /\ source \in [Sources -> States] /\ shown \in Seq(Events)
BackendType ==
    /\ valid \subseteq 1 .. created /\ expired \subseteq 1 .. created
    /\ asked \in Nat /\ owner \in [Requests -> 0 .. created]
    /\ handler \in [Requests -> Handling]
    /\ noticed \subseteq gone /\ gone \subseteq 1 .. asked
    /\ \A r \in noticed : handler[r] # "live"
    /\ wire \in [Requests -> Seq({Connected} \cup Events)]
    /\ published \in 0 .. MaxEvents /\ faults \in 0 .. MaxFaults

\* The requests whose connection stands.
AllStanding == 1 .. asked \ gone

\* There is one connection, and it belongs to the one source that is attached.
OneStream ==
    /\ \A i \in Sources : source[i] \in Attached => i = current
    /\ \A r \in AllStanding : owner[r] \in Sources /\ source[owner[r]] \in {"connecting", "open"}
    /\ \A r, s \in AllStanding : r = s

\* Each request has its source or its fault, and a source that retries has one to spare.
Counted ==
    /\ asked <= created + faults
    /\ \A i \in Sources : source[i] = "retrying" => asked < created + faults

\* A request that has not been made has nothing; one that is not authorized, no line.
Unasked ==
    /\ \A r \in Requests : r > asked => handler[r] = "none"
    /\ \A r \in Requests : handler[r] \in {"none", "auth"} => wire[r] = <<>>

\* What is on a standing connection is in order, and later than what is shown.
InOrder ==
    /\ \A r \in AllStanding : \A j, k \in DOMAIN wire[r] : j < k => wire[r][j] < wire[r][k]
    /\ \A r \in AllStanding : \A k \in DOMAIN wire[r] :
         /\ wire[r][k] <= published
         /\ wire[r][k] # Connected => \A j \in DOMAIN shown : shown[j] < wire[r][k]
    /\ \A j, k \in DOMAIN shown : j < k => shown[j] < shown[k]
    /\ \A k \in DOMAIN shown : k <= shown[k] /\ shown[k] <= published

IInv == BrowserType /\ BackendType /\ OneStream /\ Counted /\ Unasked /\ InOrder

LEMMA InitHolds == Init => IInv
<1> SUFFICES ASSUME Init PROVE IInv
    OBVIOUS
<1>1. BrowserType
  <2>1. created \in 0 .. MaxSources /\ current \in 0 .. created
      BY LiveAssumption DEF Init
  <2>2. source \in [Sources -> States] /\ shown \in Seq(Events)
      BY DEF Init, States
  <2> QED
      BY <2>1, <2>2, Zenon DEF Init, BrowserType
<1>2. BackendType
    BY LiveAssumption DEF Init, BackendType, Handling
<1>3. AllStanding = {}
    BY DEF Init, AllStanding
<1>4. OneStream
    BY <1>3 DEF Init, OneStream, Attached
<1>5. Counted /\ Unasked
    BY DEF Init, Counted, Unasked
<1>6. InOrder
    BY <1>3 DEF Init, InOrder
<1> QED
    BY <1>1, <1>2, <1>4, <1>5, <1>6 DEF IInv

-----------------------------------------------------------------------------
(* The steps *)

\* What a hang-up leaves of the connections.
LEMMA HangUpEffect ==
    ASSUME BackendType, NEW R \in SUBSET (1 .. asked), HangUp(R)
    PROVE  /\ gone' = gone \cup R /\ gone' \subseteq 1 .. asked
           /\ wire' \in [Requests -> Seq({Connected} \cup Events)]
           /\ \A r \in Requests : wire'[r] = wire[r] \/ wire'[r] = <<>>
           /\ \A r \in Requests \ gone' : wire'[r] = wire[r]
BY DEF HangUp, BackendType

\* A standing request is one of its source, which is the last one attached.
LEMMA StandingFacts ==
    ASSUME BrowserType, BackendType, OneStream, Counted, NEW r \in AllStanding
    PROVE  /\ r \in Requests /\ r \in 1 .. asked /\ r \notin gone
           /\ owner[r] = current /\ current \in Sources
           /\ source[current] \in {"connecting", "open"}
BY LiveAssumption DEF BrowserType, BackendType, OneStream, Counted, AllStanding, Requests,
                      Sources, Attached

\* There is room for the request of a new source, and of one that retries.
LEMMA Room ==
    ASSUME BrowserType, BackendType, Counted
    PROVE  /\ asked \in 0 .. MaxSources + MaxFaults
           /\ created < MaxSources => asked + 1 \in Requests
           /\ \A i \in Sources : source[i] = "retrying" => asked + 1 \in Requests
BY LiveAssumption DEF BrowserType, BackendType, Counted, Requests

\* A new event stream takes the place of the one before.
LEMMA AttachStep ==
    ASSUME IInv, created < MaxSources, Attach(created + 1),
           page' \in {"open", "left"}, mount' \in {"asked", "done"}, sending' \in BOOLEAN,
           UNCHANGED shown
    PROVE  IInv'
<1>0. BrowserType /\ BackendType /\ OneStream /\ Counted /\ Unasked /\ InOrder
    BY DEF IInv
<1> DEFINE new == created + 1
           request == asked + 1
           R == UNION {Standing(j) : j \in ClosedBefore(new)}
<1>1. /\ created' = new /\ current' = new /\ asked' = request
      /\ source' = [j \in Sources |-> IF j = new THEN "connecting"
                                      ELSE IF j \in ClosedBefore(new) THEN "closed"
                                      ELSE source[j]]
      /\ HangUp(R)
      /\ valid' = valid \cup {new}
      /\ owner' = [owner EXCEPT ![request] = new]
      /\ handler' = [handler EXCEPT ![request] = "auth"]
      /\ UNCHANGED <<expired, noticed, published, faults>>
    BY DEF Attach
<1>2. new \in Sources /\ request \in Requests /\ created \in Nat /\ asked \in Nat
    BY <1>0, Room, LiveAssumption DEF BrowserType, BackendType, Sources
<1>3. R \in SUBSET (1 .. asked)
    BY DEF Standing
<1>4. AllStanding \subseteq R
  <2>1. ASSUME NEW r \in AllStanding PROVE r \in R
    <3>1. r \in Standing(current) /\ current \in ClosedBefore(new)
        BY <1>0, <2>1, StandingFacts DEF Standing, ClosedBefore, Sources
    <3> QED
        BY <3>1
  <2> QED
      BY <2>1
<1> HIDE DEF R
<1>5. /\ gone' = gone \cup R /\ gone' \subseteq 1 .. asked
      /\ wire' \in [Requests -> Seq({Connected} \cup Events)]
      /\ \A r \in Requests : wire'[r] = wire[r] \/ wire'[r] = <<>>
    BY <1>0, <1>1, <1>3, HangUpEffect
<1>6. AllStanding' = {request}
    BY <1>1, <1>2, <1>3, <1>4, <1>5 DEF AllStanding
<1>7. \A j \in Sources : source'[j] = IF j = new THEN "connecting"
                                      ELSE IF j = current THEN "closed" ELSE source[j]
    BY <1>1, LiveAssumption DEF ClosedBefore, Sources
<1>8. BrowserType'
  <2>1. source' \in [Sources -> States]
      BY <1>0, <1>1 DEF BrowserType, States
  <2>2. created' \in 0 .. MaxSources /\ current' \in 0 .. created'
      BY <1>1, <1>2, LiveAssumption DEF Sources
  <2> QED
      BY <1>0, <2>1, <2>2 DEF BrowserType
<1>9. BackendType'
  <2>1. 0 .. created \subseteq 0 .. created' /\ 1 .. created \subseteq 1 .. created'
        /\ new \in 1 .. created' /\ new \in 0 .. created' /\ 1 .. asked \subseteq 1 .. asked'
      BY <1>1, <1>2
  <2>2. owner' \in [Requests -> 0 .. created']
      BY <1>0, <1>1, <1>2, <2>1 DEF BackendType
  <2>3. handler' \in [Requests -> Handling] /\ \A r \in noticed' : handler'[r] # "live"
      BY <1>0, <1>1, <1>2 DEF BackendType, Handling
  <2>4. noticed' \subseteq gone' /\ gone' \subseteq 1 .. asked'
      BY <1>0, <1>1, <1>5, <2>1 DEF BackendType
  <2>5. valid' \subseteq 1 .. created' /\ expired' \subseteq 1 .. created'
      BY <1>0, <1>1, <2>1 DEF BackendType
  <2>6. asked' \in Nat /\ published' \in 0 .. MaxEvents /\ faults' \in 0 .. MaxFaults
      BY <1>0, <1>1, <1>2 DEF BackendType
  <2> QED
      BY <1>5, <2>2, <2>3, <2>4, <2>5, <2>6 DEF BackendType
<1>10. OneStream'
  <2>1. owner'[request] = new /\ source'[new] = "connecting"
      BY <1>0, <1>1, <1>2, <1>7 DEF BackendType
  <2> QED
      BY <1>0, <1>1, <1>2, <1>6, <1>7, <2>1 DEF OneStream, Attached
<1>11. Counted'
  <2>1. faults \in Nat
      BY <1>0, LiveAssumption DEF BackendType
  <2> QED
      BY <1>0, <1>1, <1>2, <1>7, <2>1 DEF Counted
<1>12. Unasked'
  <2>1. wire[request] = <<>>
      BY <1>0, <1>2 DEF Unasked
  <2>2. \A r \in Requests : r # request => handler'[r] = handler[r]
      BY <1>0, <1>1, <1>2 DEF BackendType
  <2>3. wire'[request] = <<>>
      BY <1>2, <1>5, <2>1
  <2>4. \A r \in Requests : r > asked' => r > asked /\ r # request
      BY <1>1, <1>2, LiveAssumption DEF Requests
  <2> QED
      BY <1>0, <1>5, <2>2, <2>3, <2>4 DEF Unasked
<1>13. InOrder'
  <2>1. wire'[request] = <<>>
      BY <1>0, <1>2, <1>5 DEF Unasked
  <2> QED
      BY <1>0, <1>1, <1>6, <2>1 DEF InOrder
<1> QED
    BY <1>8, <1>9, <1>10, <1>11, <1>12, <1>13 DEF IInv

LEMMA Monotone ==
    ASSUME NEW x \in Nat, NEW y \in Nat, NEW z \in Nat, NEW w \in Nat, z <= w
    PROVE  (x <= y + z => x <= y + w) /\ (x < y + z => x < y + w)
OBVIOUS

LEMMA StrictlyMonotone ==
    \A x, y, z, w \in Nat : z < w /\ x <= y + z => x < y + w
OBVIOUS

\* The count of the requests holds when faults are added.
LEMMA CountedKept ==
    ASSUME Counted, created \in Nat, asked \in Nat, faults \in Nat, faults' \in Nat,
           faults' >= faults, UNCHANGED <<created, asked>>,
           \A i \in Sources : source'[i] = "retrying" =>
              source[i] = "retrying" \/ faults' > faults
    PROVE  Counted'
<1>1. asked' = asked /\ created' = created /\ asked <= created + faults
    BY DEF Counted
<1>2. (asked <= created + faults => asked <= created + faults')
      /\ (asked < created + faults => asked < created + faults')
    BY Monotone
<1>3. asked' <= created' + faults'
    BY <1>1, <1>2
<1>4. ASSUME NEW i \in Sources, source'[i] = "retrying"
      PROVE  asked' < created' + faults'
  <2>1. CASE source[i] = "retrying"
    <3>1. asked < created + faults
        BY <2>1 DEF Counted
    <3> QED
        BY <1>1, <3>1, <1>2
  <2>2. CASE source[i] # "retrying"
    <3>1. faults' > faults /\ asked <= created + faults
        BY <1>4, <2>2 DEF Counted
    <3> QED
        BY <3>1, StrictlyMonotone
  <2> QED
      BY <2>1, <2>2
<1> QED
    BY <1>3, <1>4 DEF Counted

\* Steps that leave the page, the connections and what they carry alone.
LEMMA QuietStep ==
    ASSUME IInv, BackendType', UNCHANGED <<browser, requests, gone, wire, published>>,
           faults' >= faults, \A r \in Requests : handler[r] # "auth" => handler'[r] # "auth",
           \A r \in Requests : handler'[r] = "none" <=> handler[r] = "none"
    PROVE  IInv'
<1>1. BrowserType'
    BY DEF IInv, browser, attaching, BrowserType
<1>2. OneStream' /\ InOrder'
    BY DEF IInv, browser, attaching, requests, OneStream, InOrder, AllStanding
<1>3. Counted'
  <2>1. created \in Nat /\ asked \in Nat /\ faults \in Nat /\ faults' \in Nat
      BY LiveAssumption DEF IInv, BrowserType, BackendType
  <2>2. UNCHANGED <<created, source, asked>> /\ faults' >= faults
      BY DEF browser, attaching, requests
  <2>3. Counted
      BY DEF IInv
  <2> QED
      BY <2>1, <2>2, <2>3, CountedKept
<1>4. Unasked'
    BY DEF IInv, requests, Unasked
<1> QED
    BY <1>1, <1>2, <1>3, <1>4 DEF IInv

LEMMA HandlerStep ==
    ASSUME IInv, NEW r \in Requests, Subscribe(r) \/ CloseNoticed(r)
    PROVE  IInv'
<1>0. BrowserType /\ BackendType /\ Unasked
    BY DEF IInv
<1>1. /\ UNCHANGED <<browser, tickets, requests, gone, wire, published, faults>>
      /\ noticed' \subseteq gone
      /\ handler' = [handler EXCEPT ![r] = handler'[r]]
      /\ handler[r] # "none" => handler'[r] \in Handling \ {"none", "auth"} \/ handler'[r] = handler[r]
      /\ handler[r] = "none" => handler'[r] = "none"
      /\ \A q \in noticed' : handler'[q] # "live"
  <2>1. CASE Subscribe(r)
      BY <1>0, <2>1 DEF Subscribe, BackendType, Handling
  <2>2. CASE CloseNoticed(r)
      BY <1>0, <2>2 DEF CloseNoticed, AfterClose, BackendType, Handling
  <2> QED
      BY <2>1, <2>2
<1>2. BackendType'
    BY <1>0, <1>1 DEF BackendType, browser, attaching, tickets, requests, Handling
<1>3. faults' >= faults
    BY <1>0, <1>1, LiveAssumption DEF BackendType
<1> QED
    BY <1>0, <1>1, <1>2, <1>3, QuietStep DEF BackendType

LEMMA ExpireStep ==
    ASSUME IInv, NEW i \in Sources, Expires(i)
    PROVE  IInv'
<1>1. BackendType'
    BY DEF IInv, Expires, BackendType, browser, attaching, requests
<1>2. faults' >= faults
    BY LiveAssumption DEF IInv, Expires, BackendType
<1> QED
    BY <1>1, <1>2, QuietStep DEF Expires

\* The page sends a prompt, is answered without a ticket, or gets none.
LEMMA PageStep ==
    ASSUME IInv, UNCHANGED <<created, current, source, backend>>,
           page' \in {"open", "left"}, mount' \in {"asked", "done"}, sending' \in BOOLEAN,
           shown' = shown \/ shown' = <<>>
    PROVE  IInv'
<1>0. UNCHANGED <<valid, expired, asked, owner, handler, gone, noticed, wire, published, faults>>
    BY DEF backend, tickets, requests
<1>1. BrowserType'
  <2>1. shown' \in Seq(Events)
    <3>1. <<>> \in Seq(Events)
        OBVIOUS
    <3> QED
        BY <3>1 DEF IInv, BrowserType
  <2> QED
      BY <2>1 DEF IInv, BrowserType
<1>2. BackendType' /\ OneStream' /\ Counted' /\ Unasked'
    BY <1>0 DEF IInv, BackendType, OneStream, Counted, Unasked, AllStanding
<1>3. InOrder'
    BY <1>0 DEF IInv, InOrder, AllStanding
<1> QED
    BY <1>1, <1>2, <1>3 DEF IInv

\* Connections go away; a source that was attached may end, or retry on a fault.
LEMMA HangUpStep ==
    ASSUME IInv, NEW R \in SUBSET (1 .. asked), HangUp(R), BackendType',
           UNCHANGED <<attaching, requests, shown, published>> \/
             (page' = "left" /\ UNCHANGED <<mount, sending, created, current, requests,
                                            shown, published>>),
           source' \in [Sources -> States],
           \A i \in Sources : source'[i] # source[i] =>
              /\ source'[i] \in {"failed", "refused", "closed"}
                 \/ (source'[i] = "retrying" /\ i = current)
              /\ \A r \in AllStanding : owner[r] = i => r \in R,
           faults' >= faults,
           \A i \in Sources : source'[i] = "retrying" /\ source[i] # "retrying"
                                => faults' > faults,
           \A r \in Requests : handler'[r] \in {"none", "auth"} => handler[r] \in {"none", "auth"},
           \A r \in Requests : handler[r] = "none" => handler'[r] = "none"
    PROVE  IInv'
<1>0. BrowserType /\ BackendType /\ OneStream /\ Counted /\ Unasked /\ InOrder
    BY DEF IInv
<1>1. /\ UNCHANGED <<created, current, asked, owner, shown, published>>
      /\ page' \in {"open", "left"} /\ UNCHANGED <<mount, sending>>
    BY <1>0 DEF attaching, requests, BrowserType
<1>2. /\ gone' = gone \cup R
      /\ \A r \in Requests : wire'[r] = wire[r] \/ wire'[r] = <<>>
      /\ \A r \in Requests \ gone' : wire'[r] = wire[r]
    BY <1>0, HangUpEffect
<1>3. AllStanding' = AllStanding \ R
    BY <1>1, <1>2 DEF AllStanding
<1>4. \A r \in AllStanding' : r \in Requests /\ wire'[r] = wire[r]
    BY <1>0, <1>2, <1>3, StandingFacts
<1>5. BrowserType'
    BY <1>0, <1>1 DEF BrowserType
<1>6. OneStream'
    BY <1>0, <1>1, <1>3 DEF OneStream, Attached
<1>7. Counted'
  <2>1. created \in Nat /\ asked \in Nat /\ faults \in Nat /\ faults' \in Nat
      BY <1>0, LiveAssumption DEF BrowserType, BackendType
  <2>2. UNCHANGED <<created, asked>> /\ faults' >= faults
      BY <1>1
  <2> QED
      BY <1>0, <2>1, <2>2, CountedKept
<1>8. Unasked'
    BY <1>0, <1>1, <1>2 DEF Unasked
<1>9. InOrder'
    BY <1>0, <1>1, <1>3, <1>4 DEF InOrder
<1> QED
    BY <1>5, <1>6, <1>7, <1>8, <1>9 DEF IInv

LEMMA LeaveStep ==
    ASSUME IInv, Leave
    PROVE  IInv'
<1>0. BrowserType /\ BackendType /\ OneStream /\ Counted
    BY DEF IInv
<1>1. Standing(current) \in SUBSET (1 .. asked) /\ HangUp(Standing(current))
    BY DEF Leave, Standing
<1>2. AllStanding \subseteq Standing(current)
    BY <1>0, StandingFacts DEF Standing
<1>3. /\ page' = "left"
      /\ UNCHANGED <<mount, sending, created, current, requests, shown, published, tickets,
                     handler, noticed, faults>>
      /\ source' = [i \in Sources |-> IF i = current THEN "closed" ELSE source[i]]
    BY DEF Leave
<1>4. BackendType'
    BY <1>0, <1>1, <1>3, HangUpEffect DEF BackendType, tickets, requests
<1>5. source' \in [Sources -> States]
      /\ \A i \in Sources : source'[i] = source[i] \/ (i = current /\ source'[i] = "closed")
    BY <1>0, <1>3 DEF BrowserType, States
<1>6. faults' >= faults
    BY <1>0, <1>3, LiveAssumption DEF BackendType
<1> QED
    BY <1>1, <1>2, <1>3, <1>4, <1>5, <1>6, HangUpStep

LEMMA DropStep ==
    ASSUME IInv, NEW r \in Requests, Drops(r) \/ SetupFails(r)
    PROVE  IInv'
<1>0. BrowserType /\ BackendType /\ OneStream /\ Counted /\ Unasked
    BY DEF IInv
<1>1. /\ HangUp({r}) /\ faults < MaxFaults /\ faults' = faults + 1
      /\ UNCHANGED <<attaching, requests, shown, published, tickets, noticed>>
    BY DEF Drops, SetupFails
<1>2. \/ handler' = handler
      \/ /\ handler[r] = "head"
         /\ \E h \in {"done", "leaked"} : handler' = [handler EXCEPT ![r] = h]
    BY DEF Drops, SetupFails
<1>3. r \in 1 .. asked
  <2>1. CASE Drops(r)
      BY <2>1 DEF Drops
  <2>2. CASE SetupFails(r)
      BY <1>0, <2>2, LiveAssumption DEF SetupFails, Unasked, BackendType, Requests
  <2> QED
      BY <2>1, <2>2
<1>4. source' = source \/ (r \in AllStanding /\ source' = [source EXCEPT ![current] = "retrying"]
                           /\ current \in Sources /\ source[current] # "retrying")
  <2>1. CASE Drops(r)
    <3>1. r \in AllStanding /\ source' = [source EXCEPT ![owner[r]] = "retrying"]
        BY <2>1 DEF Drops, AllStanding
    <3> QED
        BY <1>0, <3>1, StandingFacts
  <2>2. CASE SetupFails(r)
    <3>1. CASE r \in gone
        BY <2>2, <3>1 DEF SetupFails
    <3>2. CASE r \notin gone
      <4>1. r \in AllStanding /\ source' = [source EXCEPT ![owner[r]] = "retrying"]
          BY <1>3, <2>2, <3>2 DEF SetupFails, AllStanding
      <4> QED
          BY <1>0, <4>1, StandingFacts
    <3> QED
        BY <3>1, <3>2
  <2> QED
      BY <2>1, <2>2
<1>5. /\ handler' \in [Requests -> Handling]
      /\ \A q \in Requests : handler'[q] = handler[q]
                             \/ (handler[q] = "head" /\ handler'[q] \in {"done", "leaked"})
    BY <1>0, <1>2 DEF BackendType, Handling
<1>6. faults' \in 0 .. MaxFaults /\ faults' > faults
    BY <1>0, <1>1, LiveAssumption DEF BackendType
<1>7. BackendType'
  <2>1. \A q \in noticed : q \in Requests
      BY <1>0, Room, LiveAssumption DEF BackendType, Requests
  <2> QED
      BY <1>0, <1>1, <1>3, <1>5, <1>6, <2>1, HangUpEffect
      DEF BackendType, tickets, requests, attaching
<1>8. source' \in [Sources -> States]
    BY <1>0, <1>4 DEF BrowserType, States
<1>9. \A i \in Sources : source'[i] # source[i] =>
         /\ source'[i] = "retrying" /\ i = current
         /\ \A q \in AllStanding : q \in {r}
    BY <1>0, <1>4 DEF BrowserType, OneStream
<1>10. {r} \in SUBSET (1 .. asked) /\ faults' >= faults
    BY <1>3, <1>6, <1>0, LiveAssumption DEF BackendType
<1> QED
    BY <1>1, <1>5, <1>6, <1>7, <1>8, <1>9, <1>10, HangUpStep

LEMMA AuthorizeStep ==
    ASSUME IInv, NEW r \in Requests, Authorize(r)
    PROVE  IInv'
<1>0. BrowserType /\ BackendType /\ OneStream /\ Counted /\ Unasked /\ InOrder
    BY DEF IInv
<1>1. r \in 1 .. asked /\ wire[r] = <<>> /\ handler[r] = "auth"
    BY <1>0, LiveAssumption DEF Authorize, Unasked, BackendType, Requests
<1>2. \A q \in noticed : q \in Requests
    BY <1>0, Room, LiveAssumption DEF BackendType, Requests
\* The stream begins.
<1>3. CASE /\ handler' = [handler EXCEPT ![r] = "head"]
           /\ wire' = IF r \in gone THEN wire ELSE [wire EXCEPT ![r] = <<Connected>>]
           /\ valid' = Redeemed(owner[r])
           /\ UNCHANGED <<source, gone, faults>>
  <2>1. /\ handler' = [handler EXCEPT ![r] = "head"]
        /\ wire' = IF r \in gone THEN wire ELSE [wire EXCEPT ![r] = <<Connected>>]
        /\ UNCHANGED <<source, gone, attaching, shown, valid, expired, requests, noticed,
                       published, faults>>
      BY <1>3 DEF Authorize, Redeemed
  <2>2. BrowserType'
      BY <1>0, <2>1 DEF BrowserType, attaching
  <2>3. <<Connected>> \in Seq({Connected} \cup Events)
      OBVIOUS
  <2>4. wire' \in [Requests -> Seq({Connected} \cup Events)]
      BY <1>0, <2>1, <2>3 DEF BackendType
  <2>5. BackendType'
      BY <1>0, <1>2, <2>1, <2>4 DEF BackendType, attaching, requests, Handling
  <2>6. OneStream' /\ Counted'
      BY <1>0, <2>1 DEF OneStream, Counted, AllStanding, attaching, requests
  <2>7. Unasked'
      BY <1>0, <1>1, <2>1 DEF Unasked, BackendType, requests
  <2>8. AllStanding' = AllStanding /\ \A q \in AllStanding : q \in Requests
      BY <1>0, <2>1, StandingFacts DEF AllStanding, requests
  <2>9. \A q \in AllStanding : wire'[q] = wire[q] \/ wire'[q] = <<Connected>>
      BY <1>0, <2>1, <2>8 DEF BackendType
  <2>10. /\ DOMAIN <<Connected>> = {1} /\ <<Connected>>[1] = 0 /\ Connected = 0
         /\ published \in Nat
      BY <1>0, LiveAssumption DEF Connected, BackendType
  <2>11. ASSUME NEW q \in AllStanding
         PROVE  /\ \A j, k \in DOMAIN wire'[q] : j < k => wire'[q][j] < wire'[q][k]
                /\ \A k \in DOMAIN wire'[q] :
                     /\ wire'[q][k] <= published
                     /\ wire'[q][k] # Connected => \A j \in DOMAIN shown : shown[j] < wire'[q][k]
    <3>1. CASE wire'[q] = wire[q]
        BY <1>0, <2>11, <3>1 DEF InOrder
    <3>2. CASE wire'[q] = <<Connected>>
        BY <2>10, <3>2
    <3> QED
        BY <2>9, <2>11, <3>1, <3>2
  <2>12. InOrder'
      BY <1>0, <2>1, <2>8, <2>11 DEF InOrder
  <2> QED
      BY <2>2, <2>5, <2>6, <2>7, <2>12 DEF IInv
\* An error status ends the source.
<1>4. ASSUME NEW end \in {"failed", "refused"}, Ends(r, end),
             UNCHANGED faults \/ (faults < MaxFaults /\ faults' = faults + 1)
      PROVE  IInv'
  <2>1. /\ handler' = [handler EXCEPT ![r] = "done"]
        /\ source' = IF r \in gone THEN source ELSE [source EXCEPT ![owner[r]] = end]
        /\ gone' = gone \cup {r}
        /\ UNCHANGED <<wire, valid, attaching, shown, expired, requests, noticed, published>>
      BY <1>4 DEF Authorize, Ends
  <2>0. faults' \in 0 .. MaxFaults /\ faults' >= faults
      BY <1>0, <1>4, LiveAssumption DEF BackendType
  <2>2. wire' = [q \in Requests |-> IF q \in {r} THEN <<>> ELSE wire[q]]
      BY <1>0, <1>1, <2>1 DEF BackendType
  <2>3. HangUp({r}) /\ {r} \in SUBSET (1 .. asked)
      BY <1>1, <2>1, <2>2 DEF HangUp
  <2>4. BackendType'
      BY <1>0, <1>1, <1>2, <2>0, <2>1 DEF BackendType, attaching, requests, Handling
  <2>5. source' \in [Sources -> States]
        /\ \A i \in Sources : source'[i] # source[i] => source'[i] = end /\ r \in AllStanding
      BY <1>0, <1>1, <1>4, <2>1 DEF BrowserType, States, AllStanding
  <2>6. \A i \in Sources : source'[i] # source[i] =>
           \A q \in AllStanding : owner[q] = i => q \in {r}
      BY <1>0, <2>5 DEF OneStream
  <2>7. /\ \A i \in Sources : source'[i] = "retrying" => source[i] = "retrying"
        /\ \A i \in Sources : source'[i] # source[i] => source'[i] \in {"failed", "refused"}
      BY <1>4, <2>5
  <2>8. /\ \A q \in Requests : handler'[q] \in {"none", "auth"} => handler[q] \in {"none", "auth"}
        /\ \A q \in Requests : handler[q] = "none" => handler'[q] = "none"
      BY <1>0, <1>1, <2>1 DEF BackendType
  <2> QED
      BY <2>0, <2>1, <2>3, <2>4, <2>5, <2>6, <2>7, <2>8, HangUpStep
<1> QED
    BY <1>3, <1>4 DEF Authorize

LEMMA RetryStep ==
    ASSUME IInv, NEW i \in Sources, Retry(i)
    PROVE  IInv'
<1>0. BrowserType /\ BackendType /\ OneStream /\ Counted /\ Unasked /\ InOrder
    BY DEF IInv
<1> DEFINE request == asked + 1
<1>1. /\ source[i] = "retrying" /\ source' = [source EXCEPT ![i] = "connecting"]
      /\ asked' = request
      /\ owner' = [owner EXCEPT ![request] = i]
      /\ handler' = [handler EXCEPT ![request] = "auth"]
      /\ UNCHANGED <<attaching, shown, valid, expired, gone, noticed, wire, published, faults>>
    BY DEF Retry, tickets
<1>2. i = current /\ request \in Requests /\ asked \in Nat
    BY <1>0, <1>1, Room DEF OneStream, Attached, BackendType
<1>3. UNCHANGED <<page, mount, sending, created, current>>
    BY <1>1 DEF attaching
<1>4. BrowserType'
    BY <1>0, <1>1, <1>3 DEF BrowserType, States
<1>5. i \in 0 .. created /\ created \in Nat
    BY <1>0, <1>2, LiveAssumption DEF BrowserType, Sources
<1>6. BackendType'
  <2>1. 1 .. asked \subseteq 1 .. asked'
      BY <1>1, <1>2
  <2>2. /\ owner' \in [Requests -> 0 .. created] /\ handler' \in [Requests -> Handling]
        /\ \A q \in noticed : handler'[q] # "live"
      BY <1>0, <1>1, <1>2, <1>5 DEF BackendType, Handling
  <2> QED
      BY <1>0, <1>1, <1>2, <1>3, <2>1, <2>2 DEF BackendType
<1>7. AllStanding = {}
  <2>1. ASSUME NEW q \in AllStanding PROVE FALSE
      BY <1>0, <1>1, <1>2, <2>1, StandingFacts
  <2> QED
      BY <2>1
<1>8. AllStanding' \subseteq {request}
    BY <1>1, <1>2, <1>7 DEF AllStanding
<1>9. OneStream'
  <2>1. owner'[request] = i /\ source'[i] = "connecting"
      BY <1>0, <1>1, <1>2 DEF BackendType, BrowserType
  <2> QED
      BY <1>0, <1>1, <1>2, <1>3, <1>8, <2>1 DEF OneStream, Attached, BrowserType
<1>10. Counted'
  <2>1. asked' <= created' + faults'
      BY <1>0, <1>1, <1>2, <1>3, <1>5, LiveAssumption DEF Counted, BackendType
  <2>2. \A j \in Sources : source'[j] # "retrying"
      BY <1>0, <1>1, <1>2 DEF OneStream, Attached, BrowserType
  <2> QED
      BY <2>1, <2>2 DEF Counted
<1>11. wire[request] = <<>>
    BY <1>0, <1>2 DEF Unasked
<1>12. Unasked'
  <2>1. \A q \in Requests : q # request => handler'[q] = handler[q]
      BY <1>0, <1>1, <1>2 DEF BackendType
  <2>2. \A q \in Requests : q > asked' => q > asked /\ q # request
      BY <1>1, <1>2, LiveAssumption DEF Requests
  <2> QED
      BY <1>0, <1>1, <1>11, <2>1, <2>2 DEF Unasked
<1>13. InOrder'
    BY <1>0, <1>1, <1>8, <1>11 DEF InOrder
<1> QED
    BY <1>4, <1>6, <1>9, <1>10, <1>12, <1>13 DEF IInv

LEMMA PublishStep ==
    ASSUME IInv, Publish
    PROVE  IInv'
<1>0. BrowserType /\ BackendType /\ OneStream /\ Counted /\ Unasked /\ InOrder
    BY DEF IInv
<1>1. /\ published < MaxEvents /\ published' = published + 1
      /\ UNCHANGED <<browser, tickets, requests, handler, gone, noticed>>
    BY DEF Publish
<1>2. \/ /\ wire' = [r \in Requests |-> IF handler[r] = "live" /\ r \notin gone
                                        THEN Append(wire[r], published + 1) ELSE wire[r]]
         /\ UNCHANGED faults
      \/ faults < MaxFaults /\ faults' = faults + 1 /\ UNCHANGED wire
    BY DEF Publish
<1>3. UNCHANGED <<page, mount, sending, created, current, source, shown, valid, expired,
                  asked, owner>>
    BY <1>1 DEF browser, attaching, tickets, requests
<1>4. published \in Nat /\ published + 1 \in Events /\ published' \in 0 .. MaxEvents
    BY <1>0, <1>1, LiveAssumption DEF BackendType, Events
<1>5. faults' \in 0 .. MaxFaults /\ faults' >= faults
    BY <1>0, <1>2, LiveAssumption DEF BackendType
<1>6. \A r \in Requests : /\ wire'[r] = wire[r]
                             \/ (handler[r] = "live" /\ wire'[r] = Append(wire[r], published + 1))
                          /\ wire'[r] \in Seq({Connected} \cup Events)
  <2> TAKE r \in Requests
  <2>1. wire[r] \in Seq({Connected} \cup Events)
      BY <1>0 DEF BackendType
  <2>2. Append(wire[r], published + 1) \in Seq({Connected} \cup Events)
      BY <1>4, <2>1
  <2>3. wire'[r] = wire[r]
        \/ (handler[r] = "live" /\ wire'[r] = Append(wire[r], published + 1))
      BY <1>2
  <2> QED
      BY <2>1, <2>2, <2>3
<1>7. wire' \in [Requests -> Seq({Connected} \cup Events)]
  <2>1. wire' = [r \in Requests |-> wire'[r]]
      BY <1>0, <1>2 DEF BackendType
  <2> QED
      BY <1>6, <2>1
<1>8. BrowserType' /\ OneStream'
    BY <1>0, <1>1, <1>3 DEF BrowserType, OneStream, AllStanding
<1>9. BackendType'
    BY <1>0, <1>1, <1>3, <1>4, <1>5, <1>7 DEF BackendType
<1>10. Counted'
  <2>1. created \in Nat /\ asked \in Nat /\ faults \in Nat /\ faults' \in Nat
      BY <1>0, <1>5, LiveAssumption DEF BrowserType, BackendType
  <2> QED
      BY <1>0, <1>3, <1>5, <2>1, CountedKept
<1>11. Unasked'
    BY <1>0, <1>1, <1>3, <1>6 DEF Unasked
<1>12. ASSUME NEW r \in AllStanding
       PROVE  /\ \A j, k \in DOMAIN wire'[r] : j < k => wire'[r][j] < wire'[r][k]
              /\ \A k \in DOMAIN wire'[r] :
                   /\ wire'[r][k] <= published'
                   /\ wire'[r][k] # Connected => \A j \in DOMAIN shown : shown[j] < wire'[r][k]
  <2>1. r \in Requests /\ wire[r] \in Seq({Connected} \cup Events)
      BY <1>0, <1>12, StandingFacts DEF BackendType
  <2>2. /\ \A j, k \in DOMAIN wire[r] : j < k => wire[r][j] < wire[r][k]
        /\ \A k \in DOMAIN wire[r] :
             /\ wire[r][k] <= published
             /\ wire[r][k] # Connected => \A j \in DOMAIN shown : shown[j] < wire[r][k]
      BY <1>0, <1>12 DEF InOrder
  <2>3. \A k \in DOMAIN wire[r] : wire[r][k] \in Nat
      BY <2>1, LiveAssumption DEF Connected, Events
  <2>4. \A j \in DOMAIN shown : shown[j] \in Nat /\ shown[j] <= published
      BY <1>0, LiveAssumption DEF InOrder, BrowserType, Events
  <2>5. CASE wire'[r] = wire[r]
      BY <1>1, <1>4, <2>2, <2>3, <2>5
  <2>6. CASE wire'[r] = Append(wire[r], published + 1)
    <3>1. /\ Len(wire[r]) \in Nat /\ DOMAIN wire[r] = 1 .. Len(wire[r])
          /\ DOMAIN wire'[r] = 1 .. Len(wire[r]) + 1
          /\ wire'[r][Len(wire[r]) + 1] = published + 1
          /\ \A k \in 1 .. Len(wire[r]) : wire'[r][k] = wire[r][k]
        BY <2>1, <2>6
    <3>2. ASSUME NEW j \in DOMAIN wire'[r], NEW k \in DOMAIN wire'[r], j < k
          PROVE  wire'[r][j] < wire'[r][k]
      <4>1. j \in 1 .. Len(wire[r]) /\ wire'[r][j] = wire[r][j]
          BY <3>1, <3>2
      <4>2. CASE k = Len(wire[r]) + 1
        <5>1. wire[r][j] \in Nat /\ wire[r][j] <= published
            BY <2>2, <2>3, <3>1, <4>1
        <5> QED
            BY <1>4, <3>1, <4>1, <4>2, <5>1
      <4>3. CASE k # Len(wire[r]) + 1
        <5>1. k \in DOMAIN wire[r] /\ wire'[r][k] = wire[r][k]
            BY <3>1, <4>3
        <5> QED
            BY <2>2, <3>1, <3>2, <4>1, <5>1
      <4> QED
          BY <4>2, <4>3
    <3>3. ASSUME NEW k \in DOMAIN wire'[r]
          PROVE  /\ wire'[r][k] <= published'
                 /\ wire'[r][k] # Connected => \A j \in DOMAIN shown : shown[j] < wire'[r][k]
      <4>1. CASE k = Len(wire[r]) + 1
        <5>1. wire'[r][k] = published + 1
            BY <3>1, <4>1
        <5> QED
            BY <1>1, <1>4, <2>4, <5>1
      <4>2. CASE k # Len(wire[r]) + 1
        <5>1. k \in DOMAIN wire[r] /\ wire'[r][k] = wire[r][k]
            BY <3>1, <4>2
        <5>2. wire[r][k] \in Nat /\ wire[r][k] <= published
            BY <2>2, <2>3, <5>1
        <5>3. wire[r][k] <= published'
            BY <1>1, <1>4, <5>2
        <5> QED
            BY <2>2, <5>1, <5>3
      <4> QED
          BY <4>1, <4>2
    <3> QED
        BY <3>2, <3>3
  <2> QED
      BY <1>6, <2>1, <2>5, <2>6
<1>13. InOrder'
  <2>1. AllStanding' = AllStanding
      BY <1>1, <1>3 DEF AllStanding
  <2>2. \A k \in DOMAIN shown : shown[k] \in Nat
      BY <1>0, LiveAssumption DEF BrowserType, Events
  <2> QED
      BY <1>0, <1>1, <1>3, <1>4, <1>12, <2>1, <2>2 DEF InOrder
<1> QED
    BY <1>8, <1>9, <1>10, <1>11, <1>13 DEF IInv

LEMMA ReadStep ==
    ASSUME IInv, NEW r \in Requests, Read(r)
    PROVE  IInv'
<1>0. BrowserType /\ BackendType /\ OneStream /\ Counted /\ Unasked /\ InOrder
    BY DEF IInv
<1>1. /\ r \notin gone /\ wire[r] # <<>> /\ wire' = [wire EXCEPT ![r] = Tail(wire[r])]
      /\ UNCHANGED <<attaching, tickets, requests, handler, gone, noticed, published, faults>>
    BY DEF Read
<1>2. UNCHANGED <<page, mount, sending, created, current, valid, expired, asked, owner>>
    BY <1>1 DEF attaching, tickets, requests
<1>3. r \in AllStanding /\ \A q \in AllStanding : q = r
    BY <1>0, <1>1, LiveAssumption
    DEF Unasked, AllStanding, OneStream, BackendType, Requests
<1>4. owner[r] = current /\ current \in Sources /\ source[current] \in {"connecting", "open"}
    BY <1>0, <1>3, StandingFacts
<1>5. /\ wire[r] \in Seq({Connected} \cup Events) /\ Len(wire[r]) \in Nat \ {0}
      /\ DOMAIN wire[r] = 1 .. Len(wire[r]) /\ Head(wire[r]) = wire[r][1]
      /\ Tail(wire[r]) \in Seq({Connected} \cup Events)
      /\ DOMAIN Tail(wire[r]) = 1 .. Len(wire[r]) - 1
      /\ \A k \in 1 .. Len(wire[r]) - 1 : Tail(wire[r])[k] = wire[r][k + 1]
      /\ Head(wire[r]) \in {Connected} \cup Events
    BY <1>0, <1>1 DEF BackendType
<1>6. wire'[r] = Tail(wire[r]) /\ wire' \in [Requests -> Seq({Connected} \cup Events)]
    BY <1>0, <1>1, <1>5 DEF BackendType
<1>7. AllStanding' = AllStanding
    BY <1>1, <1>2 DEF AllStanding
<1>8. \/ source' = [source EXCEPT ![current] = "open"] /\ UNCHANGED shown
      \/ /\ Head(wire[r]) \in Events /\ UNCHANGED source
         /\ shown' = shown \/ shown' = Append(shown, Head(wire[r]))
    BY <1>4, <1>5 DEF Read
<1>9. BrowserType'
  <2>1. source' \in [Sources -> States] /\ shown' \in Seq(Events)
      BY <1>0, <1>8 DEF BrowserType, States
  <2> QED
      BY <1>0, <1>2, <2>1 DEF BrowserType
<1>10. BackendType'
    BY <1>0, <1>1, <1>2, <1>6 DEF BackendType
<1>11. \A i \in Sources : source'[i] = source[i] \/ (i = current /\ source'[i] = "open")
    BY <1>0, <1>8 DEF BrowserType
<1>12. source'[current] \in {"connecting", "open"}
    BY <1>4, <1>11
<1>13. OneStream'
    BY <1>0, <1>2, <1>3, <1>4, <1>7, <1>11, <1>12 DEF OneStream, Attached
<1>14. Counted'
    BY <1>0, <1>1, <1>2, <1>11 DEF Counted
<1>15. Unasked'
    BY <1>0, <1>1, <1>2 DEF Unasked, BackendType
<1>16. /\ \A j, k \in DOMAIN wire[r] : j < k => wire[r][j] < wire[r][k]
       /\ \A k \in DOMAIN wire[r] :
            /\ wire[r][k] <= published
            /\ wire[r][k] # Connected => \A j \in DOMAIN shown : shown[j] < wire[r][k]
    BY <1>0, <1>3 DEF InOrder
<1>17. \A k \in DOMAIN wire[r] : wire[r][k] \in Nat
    BY <1>5, LiveAssumption DEF Connected, Events
<1>18. \A j \in 1 .. Len(wire[r]) - 1 : wire[r][1] < wire[r][j + 1]
    BY <1>5, <1>16
<1>19. /\ \A j, k \in DOMAIN wire'[r] : j < k => wire'[r][j] < wire'[r][k]
       /\ \A k \in DOMAIN wire'[r] : wire'[r][k] <= published
  <2>1. ASSUME NEW k \in DOMAIN wire'[r]
        PROVE  wire'[r][k] = wire[r][k + 1] /\ k + 1 \in DOMAIN wire[r] /\ k \in Nat
      BY <1>5, <1>6, <2>1
  <2>2. ASSUME NEW j \in DOMAIN wire'[r], NEW k \in DOMAIN wire'[r], j < k
        PROVE  wire'[r][j] < wire'[r][k]
    <3>1. j + 1 < k + 1
        BY <2>1, <2>2
    <3> QED
        BY <1>16, <2>1, <3>1
  <2> QED
      BY <1>16, <2>1, <2>2
<1>20. shown \in Seq(Events) /\ DOMAIN shown = 1 .. Len(shown) /\ Len(shown) \in Nat
    BY <1>0 DEF BrowserType
<1>21. CASE shown' = shown
  <2>1. \A k \in DOMAIN wire'[r] :
           wire'[r][k] # Connected => \A j \in DOMAIN shown : shown[j] < wire'[r][k]
    <3> TAKE k \in DOMAIN wire'[r]
    <3>1. wire'[r][k] = wire[r][k + 1] /\ k + 1 \in DOMAIN wire[r]
        BY <1>5, <1>6
    <3> QED
        BY <1>16, <3>1
  <2> QED
      BY <1>0, <1>1, <1>3, <1>7, <1>9, <1>10, <1>13, <1>14, <1>15, <1>19, <1>21, <2>1
      DEF IInv, InOrder
<1>22. CASE Head(wire[r]) \in Events /\ shown' = Append(shown, Head(wire[r]))
  <2> DEFINE e == Head(wire[r])
  <2>1. e = wire[r][1] /\ e # Connected /\ e \in Nat /\ e <= published
        /\ \A j \in DOMAIN shown : shown[j] < e
      BY <1>5, <1>16, <1>22, LiveAssumption DEF Connected, Events
  <2> HIDE DEF e
  <2>2. /\ DOMAIN shown' = 1 .. Len(shown) + 1 /\ shown'[Len(shown) + 1] = e
        /\ \A k \in 1 .. Len(shown) : shown'[k] = shown[k]
      BY <1>20, <1>22 DEF e
  <2>3. \A j \in DOMAIN shown : shown[j] \in Nat
      BY <1>20, LiveAssumption DEF Events
  <2>4. \A j, k \in DOMAIN shown' : j < k => shown'[j] < shown'[k]
      BY <1>0, <1>20, <2>1, <2>2, <2>3 DEF InOrder
  <2>5. e >= Len(shown) + 1
    <3>1. CASE Len(shown) = 0
        BY <1>5, <1>22, <2>1, <3>1, LiveAssumption DEF Events, Connected, e
    <3>2. CASE Len(shown) # 0
      <4>1. Len(shown) \in DOMAIN shown
          BY <1>20, <3>2
      <4>2. Len(shown) <= shown[Len(shown)] /\ shown[Len(shown)] < e
          BY <1>0, <2>1, <4>1 DEF InOrder
      <4> QED
          BY <1>20, <2>1, <2>3, <4>1, <4>2
    <3> QED
        BY <3>1, <3>2
  <2>6. \A k \in DOMAIN shown' : k <= shown'[k] /\ shown'[k] <= published
      BY <1>0, <1>20, <2>1, <2>2, <2>5 DEF InOrder
  <2>7. ASSUME NEW k \in DOMAIN wire'[r], NEW j \in DOMAIN shown'
        PROVE  shown'[j] < wire'[r][k]
    <3>1. wire'[r][k] = wire[r][k + 1] /\ k + 1 \in DOMAIN wire[r] /\ e < wire[r][k + 1]
        BY <1>5, <1>6, <1>18, <2>1, <2>7
    <3>2. shown'[j] \in Nat /\ shown'[j] <= e
        BY <1>20, <2>1, <2>2, <2>3, <2>7
    <3> QED
        BY <1>17, <2>1, <3>1, <3>2
  <2>8. InOrder'
      BY <1>1, <1>3, <1>7, <1>19, <2>4, <2>6, <2>7 DEF InOrder
  <2> QED
      BY <1>9, <1>10, <1>13, <1>14, <1>15, <2>8 DEF IInv
<1> QED
    BY <1>8, <1>21, <1>22

-----------------------------------------------------------------------------
(* The properties *)

LEMMA StrengtheningStep == IInv /\ [Next]_vars => IInv'
<1> SUFFICES ASSUME IInv, [Next]_vars PROVE IInv'
    OBVIOUS
<1>0. BrowserType
    BY DEF IInv
<1>1. CASE TicketArrives
  <2>1. CASE created < MaxSources /\ Attach(created + 1) /\ UNCHANGED <<page, sending, shown>>
      BY <1>0, <1>1, <2>1, AttachStep DEF TicketArrives, BrowserType
  <2>2. CASE UNCHANGED <<page, sending, created, current, source, shown, backend>>
      BY <1>0, <1>1, <2>2, PageStep DEF TicketArrives, BrowserType
  <2> QED
      BY <1>1, <2>1, <2>2 DEF TicketArrives
<1>2. CASE Send
    BY <1>0, <1>2, PageStep DEF Send, BrowserType
<1>3. CASE SendAnswered
  <2>1. CASE created < MaxSources /\ Attach(created + 1) /\ UNCHANGED <<page, mount, shown>>
      BY <1>0, <1>3, <2>1, AttachStep DEF SendAnswered, BrowserType
  <2>2. CASE UNCHANGED <<page, mount, created, current, source, shown, backend>>
      BY <1>0, <1>3, <2>2, PageStep DEF SendAnswered, BrowserType
  <2> QED
      BY <1>3, <2>1, <2>2 DEF SendAnswered
<1>4. CASE UNCHANGED vars
  <2>1. UNCHANGED <<page, mount, sending, created, current, source, shown, backend>>
      BY <1>4 DEF vars, browser, attaching
  <2> QED
      BY <1>0, <2>1, PageStep DEF BrowserType
<1> QED
    BY <1>1, <1>2, <1>3, <1>4, LeaveStep, PublishStep, RetryStep, ReadStep, AuthorizeStep,
       HandlerStep, ExpireStep, DropStep DEF Next, Browser, Handlers

\* The inductive invariant: types, one connection, a fault or a source for each request,
\* and the order of what is on the way.
THEOREM Strengthening == Spec => []IInv
BY InitHolds, StrengtheningStep, PTL DEF Spec

\* The variables keep their types; no more requests are made than sources and faults, and
\* no more events are shown than were published.
THEOREM TypeCorrect == Spec => []TypeOK
<1>1. IInv => TypeOK
  <2> SUFFICES ASSUME IInv PROVE TypeOK
      OBVIOUS
  <2>0. BrowserType /\ BackendType /\ Counted /\ InOrder
      BY DEF IInv
  <2>1. asked \in 0 .. MaxSources + MaxFaults
      BY <2>0, Room
  <2>2. Len(shown) <= MaxEvents
    <3>1. Len(shown) \in Nat /\ DOMAIN shown = 1 .. Len(shown)
        BY <2>0 DEF BrowserType
    <3>2. CASE Len(shown) = 0
        BY <3>2, LiveAssumption
    <3>3. CASE Len(shown) # 0
      <4>1. Len(shown) \in DOMAIN shown /\ shown[Len(shown)] \in Nat
          BY <2>0, <3>1, <3>3, LiveAssumption DEF BrowserType, Events
      <4>2. Len(shown) <= shown[Len(shown)] /\ shown[Len(shown)] <= published
          BY <2>0, <4>1 DEF InOrder
      <4> QED
          BY <2>0, <3>1, <4>1, <4>2, LiveAssumption DEF BackendType
    <3> QED
        BY <3>2, <3>3
  <2> QED
      BY <2>0, <2>1, <2>2 DEF BrowserType, BackendType, TypeOK, States, Handling
<1> QED
    BY <1>1, Strengthening, PTL

\* attachSse leaves one stream to the page, and what the page shows is in the order in
\* which sendSSEMessage published it, each event once.
THEOREM OneStreamInOrder == Spec => []OneOrderedStream
<1>1. IInv => OneOrderedStream
    BY DEF IInv, OneStream, InOrder, OneOrderedStream
<1> QED
    BY <1>1, Strengthening, PTL
=============================================================================
