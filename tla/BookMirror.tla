----------------------------- MODULE BookMirror -----------------------------
(***************************************************************************)
(* The mirror of ask books the arbitrage monitor reads: two stream clients *)
(* in one thread, Polymarket's and Kalshi's, each with the books it builds *)
(* from snapshots and changes, publish into one shared mirror with a time  *)
(* stamp and a dirty mark.  A Polymarket change carries the new size of a  *)
(* level, a Kalshi one the difference.                                     *)
(*                                                                         *)
(* Each client has one book here.  What the venue has sent and the client  *)
(* not yet handled is in flight; a lost connection loses it.               *)
(***************************************************************************)
EXTENDS Integers, Sequences

CONSTANTS
    Level, MaxSize, \* price levels of a book; the largest size at a level
    MaxFlight,      \* bound: messages in flight
    MaxMoves        \* bound: steps of the streams in the life of a feed

ASSUME MirrorAssumption == Level # {} /\ MaxSize \in Nat

Client == {"pm", "kalshi"}
BookOf == [Level -> 0..MaxSize]
NoBook == [l \in {} |-> 0]
EmptyBook == [l \in Level |-> 0]

VARIABLES
    venue,      \* each venue's own book
    flight,     \* messages the client has not handled
    connected,
    asks,       \* the client's book: _asks, _books
    mirror,     \* the ladder the mirror holds, or NoBook
    fresh,      \* the mirrored ladder is not older than max_age
    dirty,      \* _dirty: the books published since the monitor last asked
    moves       \* steps of the streams, for the bound

mirrorVars == <<venue, flight, connected, asks, mirror, fresh, dirty, moves>>

MirrorInit ==
    /\ venue \in [Client -> {EmptyBook}]
    /\ flight = [c \in Client |-> <<>>]
    /\ connected = [c \in Client |-> FALSE]
    /\ asks = [c \in Client |-> NoBook]
    /\ mirror = [c \in Client |-> NoBook]
    /\ fresh = [c \in Client |-> FALSE]
    /\ dirty = {} /\ moves = 0

(***************************************************************************)
(* The venues.                                                             *)
(***************************************************************************)
Snapshot(c) == [type |-> "snapshot", book |-> venue[c]]
Change(l, n) == [type |-> "change", level |-> l, size |-> n]
Garbled == [type |-> "garbled"]

Sends(c, m) == flight' = [flight EXCEPT ![c] = Append(@, m)]

\* The book changes; a connected client is sent the change, unreadably at times
\* from Polymarket.
VenueChanges(c) ==
    /\ Len(flight[c]) < MaxFlight
    /\ \E l \in Level, n \in 0..MaxSize :
          /\ n # venue[c][l]
          /\ venue' = [venue EXCEPT ![c][l] = n]
          /\ IF ~connected[c] THEN UNCHANGED flight
             ELSE \/ Sends(c, Change(l, IF c = "pm" THEN n ELSE n - venue[c][l]))
                  \/ c = "pm" /\ Sends(c, Garbled)
    /\ UNCHANGED <<connected, asks, mirror, fresh, dirty>>

\* Polymarket sends the whole book after the subscription and again at any time.
VenueSnapshots ==
    /\ connected["pm"] /\ Len(flight["pm"]) < MaxFlight
    /\ Sends("pm", Snapshot("pm"))
    /\ UNCHANGED <<venue, connected, asks, mirror, fresh, dirty>>

(***************************************************************************)
(* The clients.                                                            *)
(***************************************************************************)
\* The subscription; Kalshi answers it with the snapshot.
Connect(c) ==
    /\ ~connected[c]
    /\ connected' = [connected EXCEPT ![c] = TRUE]
    /\ flight' = [flight EXCEPT ![c] = IF c = "kalshi" THEN <<Snapshot(c)>> ELSE <<>>]
    /\ UNCHANGED <<venue, asks, mirror, fresh, dirty>>

\* set_asks
Publish(c, book) ==
    /\ asks' = [asks EXCEPT ![c] = book]
    /\ mirror' = [mirror EXCEPT ![c] = book]
    /\ fresh' = [fresh EXCEPT ![c] = TRUE]
    /\ dirty' = dirty \cup {c}

\* A bug the handler could have: an unreadable change is passed over.
HandlePm_Skips(m) ==
    IF m.type = "snapshot" THEN Publish("pm", m.book)
    ELSE IF asks["pm"] = NoBook \/ m.type = "garbled" THEN UNCHANGED <<asks, mirror, fresh, dirty>>
    ELSE Publish("pm", [asks["pm"] EXCEPT ![m.level] = m.size])

\* PMWsClient.handle_message: a change before any snapshot is skipped, one that
\* cannot be read drops the book.
HandlePm(m) ==
    IF m.type = "snapshot" THEN Publish("pm", m.book)
    ELSE IF asks["pm"] = NoBook THEN UNCHANGED <<asks, mirror, fresh, dirty>>
    ELSE IF m.type = "garbled"
    THEN /\ asks' = [asks EXCEPT !["pm"] = NoBook]
         /\ mirror' = [mirror EXCEPT !["pm"] = NoBook]
         /\ fresh' = [fresh EXCEPT !["pm"] = FALSE]
         /\ UNCHANGED dirty
    ELSE Publish("pm", [asks["pm"] EXCEPT ![m.level] = m.size])

\* KalshiWsClient.handle_message: without a snapshot a change starts from an
\* empty book; a level never goes below zero.
HandleKalshi(m) ==
    LET old == IF asks["kalshi"] = NoBook THEN EmptyBook ELSE asks["kalshi"]
        sum == old[m.level] + m.size
    IN IF m.type = "snapshot" THEN Publish("kalshi", m.book)
       ELSE Publish("kalshi", [old EXCEPT ![m.level] = IF sum < 0 THEN 0 ELSE sum])

Receive(c) ==
    /\ flight[c] # <<>>
    /\ flight' = [flight EXCEPT ![c] = Tail(@)]
    /\ IF c = "pm" THEN HandlePm(Head(flight[c])) ELSE HandleKalshi(Head(flight[c]))
    /\ UNCHANGED <<venue, connected>>

\* Polymarket's client clears the whole mirror, Kalshi's only its own books.
Disconnect(c) ==
    /\ connected[c]
    /\ connected' = [connected EXCEPT ![c] = FALSE]
    /\ flight' = [flight EXCEPT ![c] = <<>>]
    /\ asks' = [asks EXCEPT ![c] = NoBook]
    /\ LET cleared == IF c = "pm" THEN Client ELSE {c}
       IN /\ mirror' = [d \in Client |-> IF d \in cleared THEN NoBook ELSE mirror[d]]
          /\ fresh' = [d \in Client |-> fresh[d] /\ d \notin cleared]
    /\ UNCHANGED <<venue, dirty>>

Ages(c) ==
    /\ fresh[c]
    /\ fresh' = [fresh EXCEPT ![c] = FALSE]
    /\ UNCHANGED <<venue, flight, connected, asks, mirror, dirty>>

\* WsBookFeed: the monitor's new feed has a new mirror and new clients.
NewFeed ==
    /\ flight' = [c \in Client |-> <<>>]
    /\ connected' = [c \in Client |-> FALSE]
    /\ asks' = [c \in Client |-> NoBook]
    /\ mirror' = [c \in Client |-> NoBook]
    /\ fresh' = [c \in Client |-> FALSE]
    /\ dirty' = {} /\ moves' = 0
    /\ UNCHANGED venue

\* get_asks: the ladder, or nothing when it is absent or too old.
GetAsks(c) == IF fresh[c] THEN mirror[c] ELSE NoBook

Streams ==
    /\ moves < MaxMoves /\ moves' = moves + 1
    /\ \/ VenueSnapshots
       \/ \E c \in Client : VenueChanges(c) \/ Connect(c) \/ Receive(c) \/ Disconnect(c) \/ Ages(c)

\* Once a client has handled all that was sent, a ladder the mirror serves is the
\* venue's book: none is left from before a lost connection or an unreadable
\* change, and none is put together from changes alone.
MirrorIsTheBook ==
    \A c \in Client : flight[c] = <<>> /\ GetAsks(c) # NoBook => GetAsks(c) = venue[c]
=============================================================================
