-------------------------- MODULE ArbMonitorProofs --------------------------
(***************************************************************************)
(* Proofs about ArbMonitor, the book mirror it reads, the pairs it fires   *)
(* on and the catalogue of the venue clients, for any books, pairs,        *)
(* events, listings and bounds: the mirror serves the venues' books, every *)
(* episode is recorded once, a screened basket pays in every outcome, so   *)
(* do the two legs of a fired pair, and a refresh closes no listed market. *)
(***************************************************************************)
EXTENDS ArbMonitor, PairDiscovery, MarketFeed, Sums, SequenceTheorems

USE MirrorAssumption, EventAssumption DEF MirrorAssumption, EventAssumption

-----------------------------------------------------------------------------
(***************************************************************************)
(* The mirror.                                                             *)
(***************************************************************************)
Books == [Level -> Nat] \cup {NoBook}

Message(c) ==
    [type : {"snapshot"}, book : BookOf]
        \cup [type : {"change"}, level : Level, size : IF c = "pm" THEN 0..MaxSize ELSE Int]
        \cup {g \in {Garbled} : c = "pm"}

MirrorTypeOK ==
    /\ venue \in [Client -> BookOf]
    /\ flight = [c \in Client |-> flight[c]]
    /\ \A c \in Client : flight[c] \in Seq(Message(c))
    /\ connected \in [Client -> BOOLEAN]
    /\ asks \in [Client -> Books] /\ mirror \in [Client -> Books]
    /\ fresh \in [Client -> BOOLEAN]

\* The book a client has after it handled m with the book b.
Handled(c, b, m) ==
    IF m.type = "snapshot" THEN m.book
    ELSE IF c = "pm"
    THEN IF b = NoBook \/ m.type = "garbled" THEN NoBook ELSE [b EXCEPT ![m.level] = m.size]
    ELSE LET old == IF b = NoBook THEN EmptyBook ELSE b
             sum == old[m.level] + m.size
         IN [old EXCEPT ![m.level] = IF sum < 0 THEN 0 ELSE sum]

\* Handling the messages f one after the other leads from book a to book e.
Leads(c, a, f, e) ==
    \E b : /\ b[0] = a /\ b[Len(f)] = e
           /\ \A i \in 1..Len(f) : b[i] = Handled(c, b[i - 1], f[i])

\* What is in flight leads a connected client to the venue's book; Polymarket's,
\* which may have lost it to an unreadable change, to that book or to none.
ClientInv(c) ==
    /\ ~connected[c] => flight[c] = <<>> /\ asks[c] = NoBook
    /\ connected[c] => \/ Leads(c, asks[c], flight[c], venue[c])
                       \/ c = "pm" /\ Leads(c, asks[c], flight[c], NoBook)
    /\ fresh[c] /\ mirror[c] # NoBook => mirror[c] = asks[c]

MirrorInv == MirrorTypeOK /\ \A c \in Client : ClientInv(c)

\* A book is never taken for the absence of one.
LEMMA BookIsOne == \A b : DOMAIN b = Level => b # NoBook
  BY DEF NoBook

\* Handling nothing changes nothing.
LEMMA LeadsNowhere == \A c, a, e : Leads(c, a, <<>>, e) <=> e = a
  <1> TAKE c, a, e
  <1>1. Len(<<>>) = 0
    OBVIOUS
  <1>2. ASSUME e = a PROVE Leads(c, a, <<>>, e)
    <2> DEFINE b == [i \in {0} |-> a]
    <2>1. b[0] = a /\ b[Len(<<>>)] = e /\ \A i \in 1..Len(<<>>) : b[i] = Handled(c, b[i - 1], <<>>[i])
      BY <1>1, <1>2
    <2> QED BY <2>1 DEF Leads
  <1>3. ASSUME Leads(c, a, <<>>, e) PROVE e = a
    BY <1>1, <1>3 DEF Leads
  <1> QED BY <1>2, <1>3

\* A message sent now is handled after those in flight.
LEMMA LeadsOn ==
    ASSUME NEW c, NEW S, NEW f \in Seq(S), NEW m \in S, NEW a, NEW e, Leads(c, a, f, e)
    PROVE  Leads(c, a, Append(f, m), Handled(c, e, m))
  <1>1. PICK b : /\ b[0] = a /\ b[Len(f)] = e
                 /\ \A i \in 1..Len(f) : b[i] = Handled(c, b[i - 1], f[i])
    BY DEF Leads
  <1> DEFINE n == Len(f)
             g == [i \in 0..n + 1 |-> IF i <= n THEN b[i] ELSE Handled(c, e, m)]
  <1>2. /\ n \in Nat /\ Len(Append(f, m)) = n + 1
        /\ Append(f, m)[n + 1] = m
        /\ \A i \in 1..n : Append(f, m)[i] = f[i]
    OBVIOUS
  <1>3. g[0] = a /\ g[n + 1] = Handled(c, e, m)
    BY <1>1, <1>2
  <1>4. ASSUME NEW i \in 1..n + 1 PROVE g[i] = Handled(c, g[i - 1], Append(f, m)[i])
    <2>1. CASE i \in 1..n
      <3>1. g[i] = b[i] /\ g[i - 1] = b[i - 1]
        BY <1>2, <2>1
      <3> QED BY <1>1, <1>2, <2>1, <3>1
    <2>2. CASE i = n + 1
      <3>1. g[i] = Handled(c, e, m) /\ g[i - 1] = b[n]
        BY <1>2, <2>2
      <3> QED BY <1>1, <1>2, <2>2, <3>1
    <2> QED BY <1>2, <2>1, <2>2
  <1> HIDE DEF g
  <1> QED BY <1>2, <1>3, <1>4 DEF Leads

\* Handling the first message leaves the rest to be handled.
LEMMA LeadsFrom ==
    ASSUME NEW c, NEW S, NEW f \in Seq(S), f # <<>>, NEW a, NEW e, Leads(c, a, f, e)
    PROVE  Leads(c, Handled(c, a, Head(f)), Tail(f), e)
  <1>1. PICK b : /\ b[0] = a /\ b[Len(f)] = e
                 /\ \A i \in 1..Len(f) : b[i] = Handled(c, b[i - 1], f[i])
    BY DEF Leads
  <1> DEFINE n == Len(f)
             g == [i \in 0..n - 1 |-> b[i + 1]]
  <1>2. /\ n \in Nat /\ n > 0 /\ Len(Tail(f)) = n - 1 /\ Head(f) = f[1]
        /\ \A i \in 1..n - 1 : Tail(f)[i] = f[i + 1]
    OBVIOUS
  <1>3. g[0] = Handled(c, a, Head(f))
    <2>1. g[0] = b[1] /\ 1 \in 1..n
      BY <1>2
    <2>2. b[1] = Handled(c, b[1 - 1], f[1])
      BY <1>1, <2>1
    <2> QED BY <1>1, <1>2, <2>1, <2>2
  <1>4. g[n - 1] = e
    BY <1>1, <1>2
  <1>5. ASSUME NEW i \in 1..n - 1 PROVE g[i] = Handled(c, g[i - 1], Tail(f)[i])
    <2>1. g[i] = b[i + 1] /\ g[i - 1] = b[i] /\ i + 1 \in 1..n /\ (i + 1) - 1 = i
      BY <1>2
    <2>2. b[i + 1] = Handled(c, b[(i + 1) - 1], f[i + 1])
      BY <1>1, <2>1
    <2> QED BY <1>2, <2>1, <2>2
  <1> HIDE DEF g
  <1> QED BY <1>2, <1>3, <1>4, <1>5 DEF Leads

\* What a message says keeps a book a book.
LEMMA HandledIsABook ==
    ASSUME NEW c \in Client, NEW b \in Books, NEW m \in Message(c)
    PROVE  Handled(c, b, m) \in Books
  <1>1. CASE m \in [type : {"snapshot"}, book : BookOf]
    <2>1. m.type = "snapshot" /\ m.book \in [Level -> 0..MaxSize]
      BY <1>1 DEF BookOf
    <2>2. m.book \in [Level -> Nat]
      BY <2>1
    <2> QED BY <2>1, <2>2 DEF Handled, Books
  <1>2. CASE m = Garbled /\ c = "pm"
    <2>1. m.type = "garbled"
      BY <1>2 DEF Garbled
    <2> QED BY <1>2, <2>1 DEF Handled, Books
  <1>3. CASE m \in [type : {"change"}, level : Level, size : IF c = "pm" THEN 0..MaxSize ELSE Int]
    <2>1. m.type = "change" /\ m.level \in Level
      BY <1>3
    <2>2. CASE c = "pm"
      <3>1. m.size \in Nat
        BY <1>3, <2>2
      <3> QED BY <2>1, <2>2, <3>1 DEF Handled, Books
    <2>3. CASE c # "pm"
      <3>1. m.size \in Int
        BY <1>3, <2>3
      <3> DEFINE old == IF b = NoBook THEN EmptyBook ELSE b
                 sum == old[m.level] + m.size
      <3>2. old \in [Level -> Nat]
        BY DEF Books, EmptyBook
      <3>3. (IF sum < 0 THEN 0 ELSE sum) \in Nat
        BY <2>1, <3>1, <3>2
      <3>4. Handled(c, b, m) = [old EXCEPT ![m.level] = IF sum < 0 THEN 0 ELSE sum]
        BY <2>1, <2>3 DEF Handled
      <3> HIDE DEF old
      <3> QED BY <3>2, <3>3, <3>4 DEF Books
    <2> QED BY <2>2, <2>3
  <1> QED BY <1>1, <1>2, <1>3 DEF Message

\* One client's messages change, the other's do not.
LEMMA FlightOfOne ==
    ASSUME MirrorTypeOK, NEW c \in Client, NEW f \in Seq(Message(c)), flight' = [flight EXCEPT ![c] = f]
    PROVE  /\ flight'[c] = f
           /\ \A d \in Client : d # c => flight'[d] = flight[d]
           /\ flight' = [d \in Client |-> flight'[d]]
           /\ \A d \in Client : flight'[d] \in Seq(Message(d))
  <1>1. /\ flight'[c] = f
        /\ \A d \in Client : d # c => flight'[d] = flight[d]
        /\ flight' = [d \in Client |-> flight'[d]]
    BY DEF MirrorTypeOK
  <1> QED BY <1>1 DEF MirrorTypeOK

\* A client nothing is done to keeps its invariant.
LEMMA OtherClient ==
    ASSUME MirrorInv, NEW d \in Client, flight'[d] = flight[d], connected'[d] = connected[d],
           asks'[d] = asks[d], venue'[d] = venue[d],
           fresh'[d] => fresh[d] /\ mirror'[d] = mirror[d]
    PROVE  ClientInv(d)'
  BY DEF MirrorInv, ClientInv

\* The book changes, and the change is sent, readable or not.
LEMMA VenueChangesKeeps ==
    ASSUME MirrorInv, NEW c \in Client, VenueChanges(c)
    PROVE  MirrorInv'
  <1>1. PICK l \in Level, n \in 0..MaxSize :
          /\ venue' = [venue EXCEPT ![c][l] = n]
          /\ IF ~connected[c] THEN UNCHANGED flight
             ELSE \/ Sends(c, Change(l, IF c = "pm" THEN n ELSE n - venue[c][l]))
                  \/ c = "pm" /\ Sends(c, Garbled)
    BY DEF VenueChanges
  <1>u. UNCHANGED <<connected, asks, mirror, fresh>>
    BY DEF VenueChanges
  <1>v. venue \in [Client -> BookOf] /\ venue[c] \in [Level -> 0..MaxSize]
    BY DEF MirrorInv, MirrorTypeOK, BookOf
  <1>w. /\ venue' \in [Client -> BookOf]
        /\ venue'[c] = [venue[c] EXCEPT ![l] = n]
        /\ \A d \in Client : d # c => venue'[d] = venue[d]
    <2>1. venue' = [venue EXCEPT ![c] = [venue[c] EXCEPT ![l] = n]]
      BY <1>1, Zenon
    <2>2. [venue[c] EXCEPT ![l] = n] \in BookOf
      BY <1>v DEF BookOf
    <2> QED BY <1>v, <2>1, <2>2
  <1>t. MirrorTypeOK
    BY DEF MirrorInv
  <1>2. ASSUME ~connected[c] PROVE MirrorInv'
    <2>1. UNCHANGED flight
      BY <1>1, <1>2
    <2>2. MirrorTypeOK'
      BY <1>t, <1>u, <1>w, <2>1 DEF MirrorTypeOK
    <2>3. ClientInv(c)'
      BY <1>2, <1>u, <2>1 DEF MirrorInv, ClientInv
    <2>4. \A d \in Client : d # c => ClientInv(d)'
      BY <1>u, <1>w, <2>1, OtherClient
    <2> QED BY <2>2, <2>3, <2>4 DEF MirrorInv
  <1>3. ASSUME connected[c], NEW m \in Message(c), flight' = [flight EXCEPT ![c] = Append(flight[c], m)],
               \/ m.type # "garbled" /\ Handled(c, venue[c], m) = venue'[c]
               \/ c = "pm" /\ Handled(c, venue[c], m) = NoBook,
               c = "pm" => Handled(c, NoBook, m) = NoBook
        PROVE  MirrorInv'
    <2>0. flight[c] \in Seq(Message(c))
      BY <1>t DEF MirrorTypeOK
    <2>1. Append(flight[c], m) \in Seq(Message(c))
      BY <2>0
    <2>2. /\ flight'[c] = Append(flight[c], m)
          /\ \A d \in Client : d # c => flight'[d] = flight[d]
          /\ flight' = [d \in Client |-> flight'[d]]
          /\ \A d \in Client : flight'[d] \in Seq(Message(d))
      BY <1>3, <1>t, <2>1, FlightOfOne
    <2>3. MirrorTypeOK'
      BY <1>t, <1>u, <1>w, <2>2 DEF MirrorTypeOK
    <2>4. \A e : Leads(c, asks[c], flight[c], e) => Leads(c, asks[c], flight'[c], Handled(c, e, m))
      BY <2>0, <2>2, <1>3, LeadsOn
    <2>5. \/ Leads(c, asks[c], flight[c], venue[c])
          \/ c = "pm" /\ Leads(c, asks[c], flight[c], NoBook)
      BY <1>3 DEF MirrorInv, ClientInv
    <2>6. \/ Leads(c, asks[c], flight'[c], venue'[c])
          \/ c = "pm" /\ Leads(c, asks[c], flight'[c], NoBook)
      BY <2>4, <2>5, <1>3
    <2>7. ClientInv(c)'
      BY <1>3, <1>u, <2>6 DEF MirrorInv, ClientInv
    <2>8. \A d \in Client : d # c => ClientInv(d)'
      BY <1>u, <1>w, <2>2, OtherClient
    <2> QED BY <2>3, <2>7, <2>8 DEF MirrorInv
  <1>4. ASSUME connected[c], Sends(c, Change(l, IF c = "pm" THEN n ELSE n - venue[c][l])) PROVE MirrorInv'
    <2> DEFINE m == Change(l, IF c = "pm" THEN n ELSE n - venue[c][l])
    <2>1. /\ m.type = "change" /\ m.level = l /\ m.size = (IF c = "pm" THEN n ELSE n - venue[c][l])
          /\ m = [type |-> "change", level |-> l, size |-> m.size]
      BY DEF Change
    <2>2. m.size \in IF c = "pm" THEN 0..MaxSize ELSE Int
      BY <2>1, <1>v
    <2>3. m \in Message(c)
      BY <2>1, <2>2 DEF Message
    <2>n. venue[c] # NoBook
      BY <1>v, BookIsOne
    <2>4. CASE c = "pm"
      <3>1. Handled(c, venue[c], m) = venue'[c] /\ Handled(c, NoBook, m) = NoBook
        BY <2>1, <2>4, <2>n, <1>w DEF Handled
      <3> HIDE DEF m
      <3> QED BY <1>3, <1>4, <2>1, <2>3, <3>1 DEF Sends, m
    <2>5. CASE c # "pm"
      <3>1. venue[c][l] + m.size = n /\ ~(n < 0)
        BY <1>v, <2>1, <2>5
      <3>2. Handled(c, venue[c], m) = venue'[c]
        BY <2>1, <2>5, <2>n, <1>w, <3>1 DEF Handled
      <3> HIDE DEF m
      <3> QED BY <1>3, <1>4, <2>1, <2>3, <2>5, <3>2 DEF Sends, m
    <2> QED BY <2>4, <2>5
  <1>5. ASSUME connected[c], c = "pm", Sends(c, Garbled) PROVE MirrorInv'
    <2>1. Garbled \in Message(c) /\ Garbled.type = "garbled"
      BY <1>5 DEF Message, Garbled
    <2>2. \A b : Handled(c, b, Garbled) = NoBook
      BY <1>5, <2>1 DEF Handled
    <2> QED BY <1>3, <1>5, <2>1, <2>2 DEF Sends
  <1> QED BY <1>1, <1>2, <1>4, <1>5

\* A snapshot is the venue's book.
LEMMA SnapshotLeads ==
    ASSUME MirrorInv, NEW c \in Client
    PROVE  /\ Snapshot(c) \in Message(c)
           /\ \A b : Handled(c, b, Snapshot(c)) = venue[c]
  BY DEF Snapshot, Message, Handled, MirrorInv, MirrorTypeOK

\* Polymarket sends its whole book once more.
LEMMA VenueSnapshotsKeeps ==
    ASSUME MirrorInv, VenueSnapshots
    PROVE  MirrorInv'
  <1> DEFINE c == "pm"   m == Snapshot("pm")
  <1>1. /\ connected[c] /\ flight' = [flight EXCEPT ![c] = Append(flight[c], m)]
        /\ UNCHANGED <<venue, connected, asks, mirror, fresh>>
    BY DEF VenueSnapshots, Sends
  <1>2. c \in Client
    BY DEF Client
  <1>3. m \in Message(c) /\ \A b : Handled(c, b, m) = venue[c]
    BY <1>2, SnapshotLeads
  <1>t. MirrorTypeOK
    BY DEF MirrorInv
  <1> HIDE DEF c, m
  <1>4. flight[c] \in Seq(Message(c))
    BY <1>2, <1>t DEF MirrorTypeOK
  <1>5. Append(flight[c], m) \in Seq(Message(c))
    BY <1>3, <1>4
  <1>6. /\ flight'[c] = Append(flight[c], m)
        /\ \A d \in Client : d # c => flight'[d] = flight[d]
        /\ flight' = [d \in Client |-> flight'[d]]
        /\ \A d \in Client : flight'[d] \in Seq(Message(d))
    BY <1>1, <1>2, <1>t, <1>5, FlightOfOne
  <1>7. MirrorTypeOK'
    BY <1>t, <1>1, <1>6 DEF MirrorTypeOK
  <1>8. \A e : Leads(c, asks[c], flight[c], e) => Leads(c, asks[c], flight'[c], venue[c])
    BY <1>3, <1>4, <1>6, LeadsOn
  <1>9. ClientInv(c)'
    BY <1>1, <1>2, <1>8 DEF MirrorInv, ClientInv
  <1>10. \A d \in Client : d # c => ClientInv(d)'
    BY <1>1, <1>6, OtherClient
  <1> QED BY <1>7, <1>9, <1>10 DEF MirrorInv

\* A new connection starts from nothing; Kalshi's first message is the book.
LEMMA ConnectKeeps ==
    ASSUME MirrorInv, NEW c \in Client, Connect(c)
    PROVE  MirrorInv'
  <1> DEFINE f == IF c = "kalshi" THEN <<Snapshot(c)>> ELSE <<>>
  <1>1. /\ ~connected[c] /\ connected' = [connected EXCEPT ![c] = TRUE]
        /\ flight' = [flight EXCEPT ![c] = f]
        /\ UNCHANGED <<venue, asks, mirror, fresh>>
    BY DEF Connect
  <1>t. MirrorTypeOK
    BY DEF MirrorInv
  <1>2. Snapshot(c) \in Message(c) /\ \A b : Handled(c, b, Snapshot(c)) = venue[c]
    BY SnapshotLeads
  <1>3. f \in Seq(Message(c))
    BY <1>2
  <1>4. asks[c] = NoBook
    BY <1>1 DEF MirrorInv, ClientInv
  <1>5. \/ Leads(c, asks[c], f, venue[c])
        \/ c = "pm" /\ Leads(c, asks[c], f, NoBook)
    <2>1. Leads(c, NoBook, <<>>, NoBook)
      BY LeadsNowhere
    <2>2. CASE c = "pm"
      BY <2>1, <2>2, <1>4
    <2>3. CASE c = "kalshi"
      <3>1. <<>> \in Seq(Message(c)) /\ Append(<<>>, Snapshot(c)) = <<Snapshot(c)>>
        OBVIOUS
      <3>2. Leads(c, NoBook, Append(<<>>, Snapshot(c)), Handled(c, NoBook, Snapshot(c)))
        BY <1>2, <2>1, <3>1, LeadsOn
      <3> QED BY <1>2, <1>4, <2>3, <3>1, <3>2
    <2> QED BY <2>2, <2>3 DEF Client
  <1> HIDE DEF f
  <1>6. /\ flight'[c] = f
        /\ \A d \in Client : d # c => flight'[d] = flight[d]
        /\ flight' = [d \in Client |-> flight'[d]]
        /\ \A d \in Client : flight'[d] \in Seq(Message(d))
    BY <1>1, <1>t, <1>3, FlightOfOne
  <1>7. /\ connected' \in [Client -> BOOLEAN] /\ connected'[c]
        /\ \A d \in Client : d # c => connected'[d] = connected[d]
    BY <1>1, <1>t, Zenon DEF MirrorTypeOK
  <1>8. MirrorTypeOK'
    BY <1>t, <1>1, <1>6, <1>7 DEF MirrorTypeOK
  <1>9. ClientInv(c)'
    BY <1>1, <1>5, <1>6, <1>7 DEF MirrorInv, ClientInv
  <1>10. \A d \in Client : d # c => ClientInv(d)'
    BY <1>1, <1>6, <1>7, OtherClient
  <1> QED BY <1>8, <1>9, <1>10 DEF MirrorInv

\* A handler leaves the client with the book the message leads to, and the
\* mirror with the same book or without a change.
LEMMA HandlersHandle ==
    ASSUME MirrorInv, NEW c \in Client, Receive(c)
    PROVE  LET b == Handled(c, asks[c], Head(flight[c]))
           IN /\ asks' = [asks EXCEPT ![c] = b]
              /\ \/ /\ mirror' = [mirror EXCEPT ![c] = b]
                    /\ fresh' = [fresh EXCEPT ![c] = TRUE] \/ fresh' = [fresh EXCEPT ![c] = FALSE]
                 \/ b = asks[c] /\ UNCHANGED <<mirror, fresh>>
  <1> DEFINE m == Head(flight[c])   b == Handled(c, asks[c], m)
  <1> SUFFICES /\ asks' = [asks EXCEPT ![c] = b]
               /\ \/ /\ mirror' = [mirror EXCEPT ![c] = b]
                     /\ fresh' = [fresh EXCEPT ![c] = TRUE] \/ fresh' = [fresh EXCEPT ![c] = FALSE]
                  \/ b = asks[c] /\ UNCHANGED <<mirror, fresh>>
    OBVIOUS
  <1>1. IF c = "pm" THEN HandlePm(m) ELSE HandleKalshi(m)
    BY DEF Receive
  <1>t. asks \in [Client -> Books]
    BY DEF MirrorInv, MirrorTypeOK
  <1> HIDE DEF m
  <1>2. CASE c = "pm"
    <2>1. HandlePm(m)
      BY <1>1, <1>2
    <2>2. CASE m.type = "snapshot"
      BY <1>2, <2>1, <2>2 DEF HandlePm, Publish, Handled
    <2>3. CASE m.type # "snapshot" /\ asks["pm"] = NoBook
      <3>1. b = NoBook /\ UNCHANGED <<asks, mirror, fresh>>
        BY <1>2, <2>1, <2>3 DEF HandlePm, Handled
      <3>2. asks' = [asks EXCEPT ![c] = b]
        BY <1>2, <1>t, <2>3, <3>1
      <3> QED BY <1>2, <2>3, <3>1, <3>2
    <2>4. CASE m.type = "garbled" /\ asks["pm"] # NoBook
      BY <1>2, <2>1, <2>4 DEF HandlePm, Handled
    <2>5. CASE m.type # "snapshot" /\ m.type # "garbled" /\ asks["pm"] # NoBook
      BY <1>2, <2>1, <2>5 DEF HandlePm, Publish, Handled
    <2> QED BY <2>2, <2>3, <2>4, <2>5
  <1>3. CASE c # "pm"
    <2>1. c = "kalshi" /\ HandleKalshi(m)
      BY <1>1, <1>3 DEF Client
    <2>2. CASE m.type = "snapshot"
      BY <1>3, <2>1, <2>2 DEF HandleKalshi, Publish, Handled
    <2>3. CASE m.type # "snapshot"
      BY <1>3, <2>1, <2>3 DEF HandleKalshi, Publish, Handled
    <2> QED BY <2>2, <2>3
  <1> QED BY <1>2, <1>3

\* Handling the first message keeps what the rest leads to.
LEMMA ReceiveKeeps ==
    ASSUME MirrorInv, NEW c \in Client, Receive(c)
    PROVE  MirrorInv'
  <1> DEFINE b == Handled(c, asks[c], Head(flight[c]))
  <1>1. /\ flight[c] # <<>> /\ flight' = [flight EXCEPT ![c] = Tail(flight[c])]
        /\ UNCHANGED <<venue, connected>>
    BY DEF Receive
  <1>2. /\ asks' = [asks EXCEPT ![c] = b]
        /\ \/ /\ mirror' = [mirror EXCEPT ![c] = b]
              /\ fresh' = [fresh EXCEPT ![c] = TRUE] \/ fresh' = [fresh EXCEPT ![c] = FALSE]
           \/ b = asks[c] /\ UNCHANGED <<mirror, fresh>>
    BY HandlersHandle
  <1>t. MirrorTypeOK
    BY DEF MirrorInv
  <1>3. flight[c] \in Seq(Message(c)) /\ asks[c] \in Books
    BY <1>t DEF MirrorTypeOK
  <1>4. Head(flight[c]) \in Message(c) /\ Tail(flight[c]) \in Seq(Message(c))
    BY <1>1, <1>3
  <1>5. b \in Books
    BY <1>3, <1>4, HandledIsABook
  <1>6. /\ flight'[c] = Tail(flight[c])
        /\ \A d \in Client : d # c => flight'[d] = flight[d]
        /\ flight' = [d \in Client |-> flight'[d]]
        /\ \A d \in Client : flight'[d] \in Seq(Message(d))
    BY <1>1, <1>t, <1>4, FlightOfOne
  <1>7. \A e : Leads(c, asks[c], flight[c], e) => Leads(c, b, Tail(flight[c]), e)
    BY <1>1, <1>3, LeadsFrom
  <1> HIDE DEF b
  <1>8. /\ asks' \in [Client -> Books] /\ asks'[c] = b
        /\ \A d \in Client : d # c => asks'[d] = asks[d]
    BY <1>2, <1>5, <1>t DEF MirrorTypeOK
  <1>9. /\ mirror' \in [Client -> Books]
        /\ \A d \in Client : d # c => mirror'[d] = mirror[d]
        /\ mirror'[c] = b \/ (b = asks[c] /\ mirror'[c] = mirror[c] /\ fresh'[c] = fresh[c])
    <2>1. CASE mirror' = [mirror EXCEPT ![c] = b]
      <3>1. mirror \in [Client -> Books]
        BY <1>t DEF MirrorTypeOK
      <3>2. /\ mirror' \in [Client -> Books] /\ mirror'[c] = b
            /\ \A d \in Client : d # c => mirror'[d] = mirror[d]
        BY <1>5, <2>1, <3>1
      <3> QED BY <3>2
    <2>2. CASE b = asks[c] /\ UNCHANGED <<mirror, fresh>>
      BY <1>t, <2>2 DEF MirrorTypeOK
    <2> QED BY <1>2, <2>1, <2>2
  <1>10. /\ fresh' \in [Client -> BOOLEAN]
         /\ \A d \in Client : d # c => fresh'[d] = fresh[d]
    BY <1>2, <1>t, Zenon DEF MirrorTypeOK
  <1>11. MirrorTypeOK'
    BY <1>t, <1>1, <1>6, <1>8, <1>9, <1>10 DEF MirrorTypeOK
  <1>12. connected[c]
    BY <1>1 DEF MirrorInv, ClientInv
  <1>13. ClientInv(c)'
    BY <1>1, <1>6, <1>7, <1>8, <1>9, <1>12 DEF MirrorInv, ClientInv
  <1>14. \A d \in Client : d # c => ClientInv(d)'
    BY <1>1, <1>6, <1>8, <1>9, <1>10, OtherClient
  <1> QED BY <1>11, <1>13, <1>14 DEF MirrorInv

\* A lost connection takes the book with it, out of the mirror too.
LEMMA DisconnectKeeps ==
    ASSUME MirrorInv, NEW c \in Client, Disconnect(c)
    PROVE  MirrorInv'
  <1> DEFINE cleared == IF c = "pm" THEN Client ELSE {c}
  <1>1. /\ connected' = [connected EXCEPT ![c] = FALSE]
        /\ flight' = [flight EXCEPT ![c] = <<>>]
        /\ asks' = [asks EXCEPT ![c] = NoBook]
        /\ mirror' = [d \in Client |-> IF d \in cleared THEN NoBook ELSE mirror[d]]
        /\ fresh' = [d \in Client |-> fresh[d] /\ d \notin cleared]
        /\ UNCHANGED venue
    BY DEF Disconnect
  <1>t. MirrorTypeOK
    BY DEF MirrorInv
  <1>2. <<>> \in Seq(Message(c)) /\ NoBook \in Books
    BY DEF Books
  <1>3. /\ flight'[c] = <<>>
        /\ \A d \in Client : d # c => flight'[d] = flight[d]
        /\ flight' = [d \in Client |-> flight'[d]]
        /\ \A d \in Client : flight'[d] \in Seq(Message(d))
    BY <1>1, <1>t, <1>2, FlightOfOne
  <1>4. /\ asks' \in [Client -> Books] /\ asks'[c] = NoBook
        /\ \A d \in Client : d # c => asks'[d] = asks[d]
    BY <1>1, <1>2, <1>t DEF MirrorTypeOK
  <1>5. /\ connected' \in [Client -> BOOLEAN] /\ ~connected'[c]
        /\ \A d \in Client : d # c => connected'[d] = connected[d]
    BY <1>1, <1>t, Zenon DEF MirrorTypeOK
  <1>6. c \in cleared
    OBVIOUS
  <1> HIDE DEF cleared
  <1>7. /\ mirror' \in [Client -> Books]
        /\ \A d \in Client : d \notin cleared => mirror'[d] = mirror[d]
    BY <1>1, <1>2, <1>t DEF MirrorTypeOK
  <1>8. /\ fresh' \in [Client -> BOOLEAN]
        /\ \A d \in Client : fresh'[d] => fresh[d] /\ d \notin cleared
    BY <1>1, <1>t, Zenon DEF MirrorTypeOK
  <1>9. MirrorTypeOK'
    BY <1>t, <1>1, <1>3, <1>4, <1>5, <1>7, <1>8 DEF MirrorTypeOK
  <1>10. ClientInv(c)'
    BY <1>3, <1>4, <1>5, <1>6, <1>8 DEF ClientInv
  <1>11. \A d \in Client : d # c => ClientInv(d)'
    BY <1>1, <1>3, <1>4, <1>5, <1>7, <1>8, OtherClient
  <1> QED BY <1>9, <1>10, <1>11 DEF MirrorInv

\* A ladder grows old.
LEMMA AgesKeeps ==
    ASSUME MirrorInv, NEW c \in Client, Ages(c)
    PROVE  MirrorInv'
  <1>1. fresh' = [fresh EXCEPT ![c] = FALSE] /\ UNCHANGED <<venue, flight, connected, asks, mirror>>
    BY DEF Ages
  <1>t. MirrorTypeOK
    BY DEF MirrorInv
  <1>2. fresh' \in [Client -> BOOLEAN] /\ \A d \in Client : fresh'[d] => fresh[d]
    BY <1>1, <1>t, Zenon DEF MirrorTypeOK
  <1>3. MirrorTypeOK'
    BY <1>t, <1>1, <1>2 DEF MirrorTypeOK
  <1>4. \A d \in Client : ClientInv(d)'
    BY <1>1, <1>2, OtherClient
  <1> QED BY <1>3, <1>4 DEF MirrorInv

\* A new feed knows nothing.
LEMMA NewFeedKeeps ==
    ASSUME venue \in [Client -> BookOf], NewFeed
    PROVE  MirrorInv'
  <1>1. <<>> \in Seq(Message("pm")) /\ NoBook \in Books /\ \A c \in Client : <<>> \in Seq(Message(c))
    BY DEF Books
  <1>2. /\ flight' = [c \in Client |-> <<>>] /\ connected' = [c \in Client |-> FALSE]
        /\ asks' = [c \in Client |-> NoBook] /\ mirror' = [c \in Client |-> NoBook]
        /\ fresh' = [c \in Client |-> FALSE] /\ venue' = venue
    BY DEF NewFeed
  <1>3. \A c \in Client : flight'[c] = <<>> /\ ~connected'[c] /\ asks'[c] = NoBook /\ ~fresh'[c]
    BY <1>2
  <1>4. flight' = [c \in Client |-> flight'[c]]
    BY <1>2, <1>3
  <1>5. connected' \in [Client -> BOOLEAN] /\ fresh' \in [Client -> BOOLEAN]
    BY <1>2, Zenon
  <1>6. asks' \in [Client -> Books] /\ mirror' \in [Client -> Books]
    BY <1>1, <1>2
  <1>7. MirrorTypeOK'
    BY <1>1, <1>2, <1>3, <1>4, <1>5, <1>6 DEF MirrorTypeOK
  <1>8. \A c \in Client : ClientInv(c)'
    BY <1>3 DEF ClientInv
  <1> QED BY <1>7, <1>8 DEF MirrorInv

\* Every step of the streams keeps what is in flight leading to the venue's book.
LEMMA StreamsKeep == MirrorInv /\ Streams => MirrorInv'
  BY VenueChangesKeeps, VenueSnapshotsKeeps, ConnectKeeps, ReceiveKeeps, DisconnectKeeps, AgesKeeps
  DEF Streams

\* A ladder served with nothing in flight is the venue's book.
LEMMA MirrorInvImplies == MirrorInv => MirrorIsTheBook
  <1> SUFFICES ASSUME MirrorInv, NEW c \in Client, flight[c] = <<>>, GetAsks(c) # NoBook
               PROVE  GetAsks(c) = venue[c]
    BY DEF MirrorIsTheBook
  <1>1. fresh[c] /\ GetAsks(c) = mirror[c]
    BY DEF GetAsks
  <1>2. GetAsks(c) = asks[c]
    BY <1>1 DEF MirrorInv, ClientInv
  <1>3. connected[c]
    BY <1>2 DEF MirrorInv, ClientInv
  <1>4. venue[c] = asks[c] \/ NoBook = asks[c]
    BY <1>3, LeadsNowhere DEF MirrorInv, ClientInv
  <1> QED BY <1>2, <1>4

-----------------------------------------------------------------------------
(***************************************************************************)
(* The monitor.                                                            *)
(***************************************************************************)
\* Every episode opened and not open any more is in the ledger; before the
\* first sweep none is.
EpisodesInv ==
    /\ opened \in [Key -> Nat] /\ recorded \in [Key -> Nat]
    /\ phase \in {"load", "sweep", "sleep", "stopped"}
    /\ phase = "load" => openEps = {}
    /\ EpisodesRecorded

\* The screens have offered nothing but candidates.
HotInv == \A h \in hot : \E e \in Event : h[1] = e /\ h[2] \in Candidates(e)

MonitorInv == MirrorInv /\ EpisodesInv /\ HotInv

\* The initial state.
LEMMA InitMonitorInv == Init => MonitorInv
  <1> SUFFICES ASSUME Init PROVE MonitorInv
    OBVIOUS
  <1>1. MirrorInv
    <2>1. EmptyBook \in BookOf
      BY DEF EmptyBook, BookOf
    <2>2. venue \in [Client -> BookOf]
      BY <2>1 DEF Init, MirrorInit
    <2>3. /\ flight = [c \in Client |-> <<>>] /\ connected = [c \in Client |-> FALSE]
          /\ asks = [c \in Client |-> NoBook] /\ mirror = [c \in Client |-> NoBook]
          /\ fresh = [c \in Client |-> FALSE]
      BY DEF Init, MirrorInit
    <2>4. NoBook \in Books /\ \A c \in Client : <<>> \in Seq(Message(c))
      BY DEF Books
    <2>5. \A c \in Client : flight[c] = <<>> /\ ~connected[c] /\ asks[c] = NoBook /\ ~fresh[c]
      BY <2>3
    <2>6. flight = [c \in Client |-> flight[c]]
      BY <2>3, <2>5
    <2>7. connected \in [Client -> BOOLEAN] /\ fresh \in [Client -> BOOLEAN]
      BY <2>3, Zenon
    <2>8. asks \in [Client -> Books] /\ mirror \in [Client -> Books]
      BY <2>3, <2>4
    <2>9. MirrorTypeOK
      BY <2>2, <2>4, <2>5, <2>6, <2>7, <2>8 DEF MirrorTypeOK
    <2>10. \A c \in Client : ClientInv(c)
      BY <2>5 DEF ClientInv
    <2> QED BY <2>9, <2>10 DEF MirrorInv
  <1>2. EpisodesInv
    BY DEF Init, EpisodesInv, EpisodesRecorded, None
  <1>3. HotInv
    BY DEF Init, HotInv
  <1> QED BY <1>1, <1>2, <1>3 DEF MonitorInv

\* A step that leaves the streams' state alone, or starts a new feed.
LEMMA MirrorStep == MirrorInv /\ [Next]_vars => MirrorInv'
  <1> SUFFICES ASSUME MirrorInv, [Next]_vars PROVE MirrorInv'
    OBVIOUS
  <1>1. ASSUME UNCHANGED <<venue, flight, connected, asks, mirror, fresh>> PROVE MirrorInv'
    <2>1. MirrorTypeOK'
      BY <1>1 DEF MirrorInv, MirrorTypeOK
    <2>2. \A d \in Client : ClientInv(d)'
      BY <1>1, OtherClient
    <2> QED BY <2>1, <2>2 DEF MirrorInv
  <1>2. CASE UNCHANGED mirrorVars
    BY <1>1, <1>2 DEF mirrorVars
  <1>3. CASE NewFeed
    BY <1>3, NewFeedKeeps DEF MirrorInv, MirrorTypeOK
  <1>4. CASE Streams
    BY <1>4, StreamsKeep
  <1>5. CASE Reprice
    BY <1>1, <1>5 DEF Reprice
  <1>6. UNCHANGED mirrorVars \/ NewFeed \/ Streams \/ Reprice
    <2>1. CASE UNCHANGED vars
      BY <2>1 DEF vars
    <2>2. CASE Monitor
      BY <2>2 DEF Monitor, Load, Refresh, Loads, Sweep, WakeUp, Flush
    <2>3. CASE Environment
      BY <2>3 DEF Environment, Signal, Crash, Restart, MarketCloses, OperatorRemoves
    <2> QED BY <2>1, <2>2, <2>3 DEF Next
  <1> QED BY <1>2, <1>3, <1>4, <1>5, <1>6

\* Whatever a step opens or closes, the ledger and the open episodes add up.
LEMMA EpisodesStep == EpisodesInv /\ [Next]_vars => EpisodesInv'
  <1> SUFFICES ASSUME EpisodesInv, [Next]_vars PROVE EpisodesInv'
    OBVIOUS
  <1>t. /\ opened \in [Key -> Nat] /\ recorded \in [Key -> Nat]
        /\ phase \in {"load", "sweep", "sleep", "stopped"}
        /\ phase = "load" => openEps = {}
    BY DEF EpisodesInv
  <1>e. \A k \in Key : IF phase = "stopped" THEN recorded[k] = opened[k]
                       ELSE recorded[k] + (IF k \in openEps THEN 1 ELSE 0) = opened[k]
    BY DEF EpisodesInv, EpisodesRecorded
  <1>1. ASSUME UNCHANGED <<openEps, opened, recorded>>,
               \/ phase' = phase
               \/ phase' \in {"sweep", "sleep"} /\ phase # "stopped"
               \/ phase = "load" /\ phase' = "stopped"
        PROVE  EpisodesInv'
    <2>1. CASE phase' = phase
      BY <1>1, <1>t, <1>e, <2>1 DEF EpisodesInv, EpisodesRecorded
    <2>2. CASE phase' \in {"sweep", "sleep"} /\ phase # "stopped"
      BY <1>1, <1>t, <1>e, <2>2 DEF EpisodesInv, EpisodesRecorded
    <2>3. CASE phase = "load" /\ phase' = "stopped"
      BY <1>1, <1>t, <1>e, <2>3 DEF EpisodesInv, EpisodesRecorded
    <2> QED BY <1>1, <2>1, <2>2, <2>3
  <1>2. ASSUME phase' = "load", openEps' = {}, opened' = None, recorded' = None PROVE EpisodesInv'
    BY <1>2 DEF EpisodesInv, EpisodesRecorded, None
  <1>3. CASE Sweep
    <2>1. PICK live : /\ Opens(live \ openEps)
                      /\ openEps' = (openEps \ Closed(live)) \cup live
                      /\ recorded' = [k \in Key |-> IF k \in Closed(live) THEN recorded[k] + 1 ELSE recorded[k]]
      BY <1>3 DEF Sweep
    <2> DEFINE over == Closed(live)
    <2>2. over \subseteq openEps /\ over \cap live = {}
      BY DEF Closed
    <2>3. opened' = [k \in Key |-> IF k \in live \ openEps THEN opened[k] + 1 ELSE opened[k]]
      BY <2>1 DEF Opens
    <2> HIDE DEF over
    <2>4. phase = "sweep" /\ phase' = "sleep"
      BY <1>3 DEF Sweep
    <2>5. opened' \in [Key -> Nat] /\ recorded' \in [Key -> Nat]
      BY <1>t, <2>1, <2>3
    <2>6. ASSUME NEW k \in Key PROVE recorded'[k] + (IF k \in openEps' THEN 1 ELSE 0) = opened'[k]
      <3>1. /\ opened'[k] = IF k \in live \ openEps THEN opened[k] + 1 ELSE opened[k]
            /\ recorded'[k] = IF k \in over THEN recorded[k] + 1 ELSE recorded[k]
            /\ k \in openEps' <=> (k \in openEps /\ k \notin over) \/ k \in live
        BY <2>1, <2>3 DEF over
      <3>2. recorded[k] + (IF k \in openEps THEN 1 ELSE 0) = opened[k] /\ opened[k] \in Nat /\ recorded[k] \in Nat
        BY <1>e, <1>t, <2>4
      <3> QED BY <2>2, <3>1, <3>2
    <2> QED BY <2>4, <2>5, <2>6 DEF EpisodesInv, EpisodesRecorded
  <1>4. CASE Reprice
    <2>1. phase' = phase /\ phase = "sleep" /\ recorded' = recorded
      BY <1>4 DEF Reprice
    <2>2. CASE UNCHANGED <<openEps, opened>>
      BY <1>1, <2>1, <2>2
    <2>3. CASE Opens(Wired \ openEps) /\ openEps' = openEps \cup Wired
      <3>1. opened' = [k \in Key |-> IF k \in Wired \ openEps THEN opened[k] + 1 ELSE opened[k]]
        BY <2>3 DEF Opens
      <3>2. opened' \in [Key -> Nat]
        BY <1>t, <3>1
      <3>3. \A k \in Key : recorded'[k] + (IF k \in openEps' THEN 1 ELSE 0) = opened'[k]
        BY <1>e, <1>t, <2>1, <2>3, <3>1
      <3> QED BY <1>t, <2>1, <3>2, <3>3 DEF EpisodesInv, EpisodesRecorded
    <2> QED BY <1>4, <2>2, <2>3 DEF Reprice
  <1>5. CASE Flush
    <2>1. /\ phase \in {"sweep", "sleep"} /\ phase' = "stopped" /\ opened' = opened
          /\ recorded' = [k \in Key |-> IF k \in openEps THEN recorded[k] + 1 ELSE recorded[k]]
      BY <1>5 DEF Flush
    <2>2. recorded' \in [Key -> Nat] /\ \A k \in Key : recorded'[k] = opened'[k]
      BY <1>t, <1>e, <2>1
    <2> QED BY <1>t, <2>1, <2>2 DEF EpisodesInv, EpisodesRecorded
  <1>6. CASE Crash \/ Restart
    BY <1>2, <1>6 DEF Crash, Restart
  <1>7. CASE Load
    BY <1>1, <1>7 DEF Load
  <1>8. CASE Refresh
    BY <1>1, <1>8 DEF Refresh
  <1>9. CASE WakeUp
    BY <1>1, <1>9 DEF WakeUp
  <1>10. CASE Signal
    BY <1>1, <1>10 DEF Signal
  <1>11. CASE UNCHANGED monitorVars
    BY <1>1, <1>11 DEF monitorVars
  <1>12. CASE \E p \in Wired : MarketCloses(p) \/ OperatorRemoves(p)
    BY <1>1, <1>12 DEF MarketCloses, OperatorRemoves
  <1> QED BY <1>3, <1>4, <1>5, <1>6, <1>7, <1>8, <1>9, <1>10, <1>11, <1>12
          DEF Next, Monitor, Environment, vars

\* Only the screens make a candidate hot.
LEMMA HotStep == HotInv /\ [Next]_vars => HotInv'
  <1> SUFFICES ASSUME HotInv, [Next]_vars PROVE HotInv'
    OBVIOUS
  <1>1. CASE LoadScreens
    BY <1>1 DEF LoadScreens, HotInv
  <1>2. CASE hot' = {}
    BY <1>2 DEF HotInv
  <1>3. CASE UNCHANGED hot
    BY <1>3 DEF HotInv
  <1>4. LoadScreens \/ hot' = {} \/ UNCHANGED hot
    <2>1. CASE UNCHANGED vars
      BY <2>1 DEF vars, monitorVars
    <2>2. CASE Monitor
      BY <2>2 DEF Monitor, Load, Refresh, Loads, Sweep, Reprice, WakeUp, Flush
    <2>3. CASE Environment
      BY <2>3 DEF Environment, Signal, Crash, Restart, MarketCloses, OperatorRemoves, monitorVars
    <2> QED BY <2>1, <2>2, <2>3 DEF Next
  <1> QED BY <1>1, <1>2, <1>3, <1>4

-----------------------------------------------------------------------------
(***************************************************************************)
(* The screens.                                                            *)
(***************************************************************************)
\* A candidate buys at most one side of each market of its event, and pays as
\* many dollars as its walk reckons with in every outcome: all YES because one
\* of them wins, all NO because at most one loses, and the two rungs because a
\* value above the higher one is above the lower.
LEMMA CandidatesPay ==
    ASSUME NEW e \in Event, NEW c \in Candidates(e), NEW w \in Outcomes(e)
    PROVE  Pays(c, w) >= c.payout
  <1> DEFINE M == Markets(e)   n == Len(e.asks)
  <1>1. /\ e.asks \in Seq(Int) /\ n \in Nat /\ M = 1..n
    BY DEF Markets
  <1>2. IsFiniteSet(M) /\ Cardinality(M) = n
    BY <1>1, FS_Interval
  <1>3. /\ w \subseteq M
        /\ e.exclusive => Cardinality(w) <= 1
        /\ e.exhaustive => w # {}
        /\ \A i, j \in M : 0 < e.rungs[i] /\ e.rungs[i] < e.rungs[j] /\ j \in w => i \in w
    BY DEF Outcomes
  <1>4. IsFiniteSet(w) /\ Cardinality(w) \in Nat
    BY <1>2, <1>3, FS_Subset, FS_CardinalityType
  <1> HIDE DEF M, n
  <1>5. ASSUME DutchYes(e), c = [kind |-> "dutch_yes", yes |-> M, no |-> {}, payout |-> 1]
        PROVE  Pays(c, w) >= c.payout
    <2>1. w # {}
      BY <1>3, <1>5 DEF DutchYes
    <2>2. Cardinality(w) # 0
      BY <1>4, <2>1, FS_EmptySet
    <2>3. c.yes \cap w = w /\ c.no \ w = {} /\ c.payout = 1
      BY <1>3, <1>5
    <2>4. Cardinality({}) = 0
      BY FS_EmptySet
    <2>5. Pays(c, w) = Cardinality(w) + 0
      BY <2>3, <2>4, Zenon DEF Pays
    <2> QED BY <1>4, <2>2, <2>3, <2>5
  <1>6. ASSUME DutchNo(e), c = [kind |-> "dutch_no", yes |-> {}, no |-> M, payout |-> n - 1]
        PROVE  Pays(c, w) >= c.payout
    <2>1. Cardinality(w) <= 1
      BY <1>3, <1>6 DEF DutchNo
    <2>2. c.yes \cap w = {} /\ c.no \ w = M \ w /\ c.payout = n - 1
      BY <1>6
    <2>3. Cardinality(M \ w) = Cardinality(M) - Cardinality(M \cap w) /\ M \cap w = w
      BY <1>2, <1>3, FS_Difference
    <2>4. Cardinality({}) = 0
      BY FS_EmptySet
    <2>5. Pays(c, w) = 0 + Cardinality(M \ w)
      BY <2>2, <2>4, Zenon DEF Pays
    <2>6. Cardinality(M \ w) = n - Cardinality(w)
      BY <1>2, <2>3, Zenon
    <2>7. Pays(c, w) = n - Cardinality(w)
      BY <1>1, <1>4, <2>5, <2>6
    <2> QED BY <1>1, <1>4, <2>1, <2>2, <2>7
  <1>7. ASSUME NEW r \in RungPairs(e), c = [kind |-> "ladder", yes |-> {r[1]}, no |-> {r[2]}, payout |-> 1]
        PROVE  Pays(c, w) >= c.payout
    <2>1. r[1] \in M /\ r[2] \in M /\ 0 < e.rungs[r[1]] /\ e.rungs[r[1]] < e.rungs[r[2]]
      BY <1>7 DEF RungPairs, M
    <2>2. r[1] \in w \/ r[2] \notin w
      BY <1>3, <2>1
    <2>3. c.yes \cap w = {r[1]} \cap w /\ c.no \ w = {r[2]} \ w /\ c.payout = 1
      BY <1>7
    <2>4. \A x : Cardinality({x}) = 1
      BY FS_Singleton
    <2>5. Cardinality({}) = 0
      BY FS_EmptySet
    <2>6. CASE r[1] \in w
      <3>1. {r[1]} \cap w = {r[1]}
        BY <2>6
      <3>2. {r[2]} \ w = {} \/ {r[2]} \ w = {r[2]}
        OBVIOUS
      <3>3. Pays(c, w) = 1 + 0 \/ Pays(c, w) = 1 + 1
        BY <2>3, <2>4, <2>5, <3>1, <3>2, Zenon DEF Pays
      <3> QED BY <2>3, <3>3
    <2>7. CASE r[2] \notin w
      <3>1. {r[2]} \ w = {r[2]}
        BY <2>7
      <3>2. {r[1]} \cap w = {} \/ {r[1]} \cap w = {r[1]}
        OBVIOUS
      <3>3. Pays(c, w) = 0 + 1 \/ Pays(c, w) = 1 + 1
        BY <2>3, <2>4, <2>5, <3>1, <3>2, Zenon DEF Pays
      <3> QED BY <2>3, <3>3
    <2> QED BY <2>2, <2>6, <2>7
  <1> QED BY <1>5, <1>6, <1>7 DEF Candidates, M, n

\* What is hot pays.
LEMMA HotPays == HotInv => ScreensAreSafe
  BY CandidatesPay DEF HotInv, ScreensAreSafe

-----------------------------------------------------------------------------
\* The invariant holds in every state of the monitor.
THEOREM MonitorInvHolds == Spec => []MonitorInv
  <1>1. MonitorInv /\ [Next]_vars => MonitorInv'
    BY MirrorStep, EpisodesStep, HotStep DEF MonitorInv
  <1> QED BY <1>1, InitMonitorInv, PTL DEF Spec

\* handle_message and get_asks: whatever is published, lost, unreadable or out of
\* date, and however often the feed is made anew, the mirror never serves a book
\* the venue does not have once what was sent is handled.
THEOREM MirrorServesTheBook == Spec => []MirrorIsTheBook
  <1>1. MonitorInv => MirrorIsTheBook
    BY MirrorInvImplies DEF MonitorInv
  <1> QED BY <1>1, MonitorInvHolds, PTL

\* run_sweep, the dirty repricing and the flush at the end: an orderly stop has
\* recorded every episode of the run exactly once, for any pairs, turns, refreshes
\* and repricings in between.
THEOREM LedgerIsComplete == Spec => []EpisodesRecorded
  <1>1. MonitorInv => EpisodesRecorded
    BY DEF MonitorInv, EpisodesInv
  <1> QED BY <1>1, MonitorInvHolds, PTL

\* The event screens: a candidate pays at least its payout however its event ends,
\* for any number of markets.
THEOREM ScreensPay == Spec => []ScreensAreSafe
  <1>1. MonitorInv => ScreensAreSafe
    BY HotPays DEF MonitorInv
  <1> QED BY <1>1, MonitorInvHolds, PTL

-----------------------------------------------------------------------------
(***************************************************************************)
(* The pairs and what is fired on them.                                    *)
(***************************************************************************)
\* A Polymarket market has two tokens of different names, one of each side.
LEMMA TwoTokens ==
    ASSUME NEW names \in TokenNames, NEW polarity
    PROVE  /\ YesToken(names) # NoToken(names)
           /\ {YesToken(names), NoToken(names)} = {names[1], names[2]}
           /\ TokenOfA(polarity, names) \in {names[1], names[2]}
           /\ TokenOfB(polarity, names) \in {names[1], names[2]}
           /\ TokenOfA(polarity, names) # TokenOfB(polarity, names)
  <1>1. \/ names = <<"yes", "no">> \/ names = <<"no", "yes">> \/ names = <<"home", "away">>
    BY DEF TokenNames
  <1>2. CASE names = <<"yes", "no">>
    BY <1>2 DEF YesToken, NoToken, TokenOfA, TokenOfB
  <1>3. CASE names = <<"no", "yes">>
    BY <1>3 DEF YesToken, NoToken, TokenOfA, TokenOfB
  <1>4. CASE names = <<"home", "away">>
    BY <1>4 DEF YesToken, NoToken, TokenOfA, TokenOfB
  <1> QED BY <1>1, <1>2, <1>3, <1>4

\* Kalshi's YES is paired with the token of the other outcome, and its NO with the token of the same.
LEMMA OppositeLegs ==
    ASSUME NEW names \in TokenNames, NEW polarity, NEW happens \in BOOLEAN
    PROVE  /\ KalshiPays("yes", happens) # TokenPays(TokenOfB(polarity, names), names, polarity, happens)
           /\ KalshiPays("no", happens) # TokenPays(TokenOfA(polarity, names), names, polarity, happens)
  <1>1. YesToken(names) # NoToken(names)
    BY TwoTokens
  <1>2. CASE happens = TRUE
    BY <1>1, <1>2 DEF KalshiPays, TokenPays, TokenOfA, TokenOfB
  <1>3. CASE happens = FALSE
    BY <1>1, <1>3 DEF KalshiPays, TokenPays, TokenOfA, TokenOfB
  <1> QED BY <1>2, <1>3

\* What a priced pair is fired with.
LEMMA FireIsHedged ==
    ASSUME LegsPayEitherWay, [DiscoveryNext]_discoveryVars
    PROVE  LegsPayEitherWay'
  <1>1. CASE fired' = fired \/ fired' = NoOpportunity
    BY <1>1 DEF LegsPayEitherWay
  <1>2. CASE Fire
    <2>1. PICK p \in watchlist, names \in TokenNames :
            \E kalshi \in [{"yes", "no"} -> Asks], poly \in [{names[1], names[2]} -> Asks] :
               \E s \in Structures(p, names, kalshi, poly) :
                  fired' = [polarity |-> p.polarity, names |-> names, kalshi |-> kalshi, poly |-> poly,
                            legs |-> BuildLegs(ToOpportunity(p, names, s))]
      BY <1>2 DEF Fire
    <2>2. PICK kalshi \in [{"yes", "no"} -> Asks], poly \in [{names[1], names[2]} -> Asks] :
               \E s \in Structures(p, names, kalshi, poly) :
                  fired' = [polarity |-> p.polarity, names |-> names, kalshi |-> kalshi, poly |-> poly,
                            legs |-> BuildLegs(ToOpportunity(p, names, s))]
      BY <2>1
    <2>3. PICK s \in Structures(p, names, kalshi, poly) :
                  fired' = [polarity |-> p.polarity, names |-> names, kalshi |-> kalshi, poly |-> poly,
                            legs |-> BuildLegs(ToOpportunity(p, names, s))]
      BY <2>2
    <2> DEFINE ta == TokenOfA(p.polarity, names)   tb == TokenOfB(p.polarity, names)
               legs == BuildLegs(ToOpportunity(p, names, s))
    <2>4. ta \in {names[1], names[2]} /\ tb \in {names[1], names[2]}
      BY TwoTokens
    <2>5. /\ kalshi["yes"] \in Int /\ kalshi["no"] \in Int /\ poly[ta] \in Int /\ poly[tb] \in Int
      BY <2>4, AsksAreNumbers DEF AsksAreNumbers
    <2>6. /\ s.avgA + s.avgB < 100
          /\ \/ s.aIsK = TRUE /\ s.avgA = kalshi["yes"] /\ s.avgB = poly[tb]
             \/ s.aIsK = FALSE /\ s.avgA = poly[ta] /\ s.avgB = kalshi["no"]
      <3> DEFINE aIsK == kalshi["yes"] <= poly[ta]
                 bIsK == kalshi["no"] <= poly[tb]
                 costA == IF aIsK THEN kalshi["yes"] ELSE poly[ta]
                 costB == IF bIsK THEN kalshi["no"] ELSE poly[tb]
      <3>1. /\ aIsK # bIsK /\ costA + costB < 100
            /\ s = [aIsK |-> aIsK, avgA |-> costA, avgB |-> costB]
        BY <2>3, Zenon DEF Structures
      <3>2. s.aIsK = aIsK /\ s.avgA = costA /\ s.avgB = costB
        BY <3>1
      <3>3. CASE aIsK
        BY <2>5, <3>1, <3>2, <3>3
      <3>4. CASE ~aIsK
        <4> aIsK \in BOOLEAN /\ bIsK \in BOOLEAN
          BY <2>5
        <4> HIDE DEF aIsK, bIsK
        <4>1. bIsK /\ aIsK = FALSE
          BY <3>1, <3>4
        <4>2. s.aIsK = FALSE
          BY <3>2, <4>1, Zenon
        <4>3. costA = poly[ta] /\ costB = kalshi["no"]
          BY <3>4, <4>1
        <4> QED BY <3>1, <3>2, <4>2, <4>3
      <3> QED BY <3>3, <3>4
    <2>7. \/ /\ legs.kalshiSide = "yes" /\ legs.kalshiLimit = kalshi["yes"]
             /\ legs.token = tb /\ legs.polyLimit = poly[tb]
          \/ /\ legs.kalshiSide = "no" /\ legs.kalshiLimit = kalshi["no"]
             /\ legs.token = ta /\ legs.polyLimit = poly[ta]
      BY <2>6 DEF ToOpportunity, BuildLegs
    <2>8. legs.kalshiLimit + legs.polyLimit < 100
      BY <2>5, <2>6 DEF ToOpportunity, BuildLegs
    <2> HIDE DEF legs
    <2>9. ASSUME NEW happens \in BOOLEAN
          PROVE  KalshiPays(legs.kalshiSide, happens) # TokenPays(legs.token, names, p.polarity, happens)
      BY <2>7, OppositeLegs
    <2>10. /\ fired'.legs = legs /\ fired'.names = names /\ fired'.polarity = p.polarity
           /\ fired'.kalshi = kalshi /\ fired'.poly = poly
      BY <2>3 DEF legs
    <2>11. legs.kalshiLimit = kalshi[legs.kalshiSide] /\ legs.polyLimit = poly[legs.token]
      BY <2>7
    <2> QED BY <2>8, <2>9, <2>10, <2>11 DEF LegsPayEitherWay, KalshiPays, TokenPays
  <1> QED BY <1>1, <1>2 DEF DiscoveryNext, Fetch, MatchMarket, Arbitrate, Merge, Sweeps, discoveryVars

\* pair_structures, to_opportunity and _build_legs: whatever the polarity, the names
\* of the tokens and the asks, the two legs pay a dollar whichever way the event goes,
\* each at the ask of its own book and together for less than the dollar.
THEOREM FiredLegsPay == DiscoverySpec => []LegsPayEitherWay
  <1>1. DiscoveryInit => LegsPayEitherWay
    BY DEF DiscoveryInit, LegsPayEitherWay
  <1>2. LegsPayEitherWay /\ [DiscoveryNext]_discoveryVars => LegsPayEitherWay'
    BY FireIsHedged
  <1> QED BY <1>1, <1>2, PTL DEF DiscoverySpec

-----------------------------------------------------------------------------
(***************************************************************************)
(* The catalogue.                                                          *)
(***************************************************************************)
USE FeedAssumption DEF FeedAssumption

\* What a refresh has yet to see is on a page it has yet to read, and a market
\* that is not listed now has been missing in this refresh.
Unread ==
    /\ Polymarket \ listed \subseteq absent
    /\ \A m \in (listed \cap Polymarket) \ absent : m \in seen \/ PageOf[m] >= cursor

\* A refresh begins once initialize is over and ends before shutdown.
FeedInv ==
    /\ cursor \in Nat
    /\ sweep => stage = "running" /\ Unread

\* Min is the least of any numbers.
LEMMA Least ==
    ASSUME NEW S \in SUBSET Nat, S # {}
    PROVE  Min(S) \in S /\ \A y \in S : Min(S) <= y
  <1>1. PICK x \in S : \A y \in S : x <= y
    BY LeastNumber
  <1> QED BY <1>1 DEF Min

\* An answer holds all that is left on its page, and the cursor it comes with
\* skips nothing.
LEMMA PageByPage ==
    ASSUME NEW v \in Venue, cursor \in Nat
    PROVE  LET rows == Rows(v, cursor)   next == NextCursor(v, cursor)
           IN /\ rows \subseteq Of(v)
              /\ next \in Nat
              /\ rows = {} \/ next = 0 => From(v, cursor) \subseteq rows
              /\ next # 0 => \A m \in From(v, cursor) : m \in rows \/ PageOf[m] >= next
  <1> DEFINE from == From(v, cursor)   rows == Rows(v, cursor)   later == from \ rows
             pages(S) == {PageOf[m] : m \in S}
  <1>1. from \subseteq Market /\ rows \subseteq from /\ from \subseteq Of(v) /\ later \subseteq Market
    BY DEF From, Rows, Of, Market, Venue
  <1>2. pages(from) \subseteq Nat \ {0} /\ pages(later) \subseteq Nat \ {0}
    BY <1>1 DEF Market
  <1>3. from # {} => rows # {}
    <2> SUFFICES ASSUME from # {} PROVE rows # {}
      OBVIOUS
    <2>1. pages(from) # {} /\ pages(from) \in SUBSET Nat
      BY <1>2
    <2>2. Min(pages(from)) \in pages(from) /\ \A y \in pages(from) : Min(pages(from)) <= y
      BY <2>1, Least
    <2>3. PICK m \in from : PageOf[m] = Min(pages(from))
      BY <2>2
    <2>4. \A n \in from : PageOf[m] <= PageOf[n]
      BY <2>2, <2>3
    <2> QED BY <2>3, <2>4 DEF Rows
  <1>4. later # {} => Min(pages(later)) \in Nat \ {0} /\ \A m \in later : Min(pages(later)) <= PageOf[m]
    <2> SUFFICES ASSUME later # {} PROVE Min(pages(later)) \in Nat \ {0} /\ \A m \in later : Min(pages(later)) <= PageOf[m]
      OBVIOUS
    <2>1. pages(later) # {} /\ pages(later) \in SUBSET Nat
      BY <1>2
    <2>2. Min(pages(later)) \in pages(later) /\ \A y \in pages(later) : Min(pages(later)) <= y
      BY <2>1, Least
    <2> QED BY <1>2, <2>2
  <1>5. NextCursor(v, cursor) = IF later = {} THEN 0 ELSE Min(pages(later))
    BY DEF NextCursor
  <1> HIDE DEF rows, from
  <1>6. \A m \in later : PageOf[m] \in Nat
    BY <1>1 DEF Market
  <1> QED BY <1>1, <1>3, <1>4, <1>5, <1>6 DEF rows, from

\* Only a refresh closes a market, and only one whose listing it has read to the end.
LEMMA ClosesTheMissing ==
    ASSUME FeedInv, RefreshPage
    PROVE  FeedInv' /\ \A m \in closed' \ closed : m \notin listed \/ m \in absent
  <1> DEFINE rows == Rows("polymarket", cursor)   next == NextCursor("polymarket", cursor)
  <1>1. sweep /\ stage = "running" /\ Unread /\ cursor \in Nat /\ UNCHANGED <<stage, listed>>
    BY DEF RefreshPage, FeedInv
  <1>2. /\ rows \subseteq Polymarket /\ next \in Nat
        /\ rows = {} \/ next = 0 => From("polymarket", cursor) \subseteq rows
        /\ next # 0 => \A m \in From("polymarket", cursor) : m \in rows \/ PageOf[m] >= next
    BY <1>1, PageByPage DEF Venue, Of
  <1>3. \A m \in (listed \cap Polymarket) \ absent : m \in seen \/ m \in From("polymarket", cursor)
    BY <1>1 DEF Unread, From, Of
  <1>u. \/ (rows = {} \/ next = 0) /\ RefreshEnds(seen \cup rows, TRUE)
        \/ RefreshEnds(seen \cup rows, FALSE)
        \/ /\ ~(rows = {} \/ next = 0) /\ closed' = closed \ rows /\ seen' = seen \cup rows
           /\ cursor' = next /\ UNCHANGED <<sweep, absent>>
    BY DEF RefreshPage
  <1> HIDE DEF rows, next
  <1>4. CASE (rows = {} \/ next = 0) /\ RefreshEnds(seen \cup rows, TRUE)
    BY <1>2, <1>3, <1>4 DEF RefreshEnds, NewListing, FeedInv
  <1>5. CASE RefreshEnds(seen \cup rows, FALSE)
    BY <1>5 DEF RefreshEnds, NewListing, FeedInv
  <1>6. CASE /\ ~(rows = {} \/ next = 0) /\ closed' = closed \ rows /\ seen' = seen \cup rows
             /\ cursor' = next /\ UNCHANGED <<sweep, absent>>
    <2>1. Unread'
      BY <1>1, <1>2, <1>3, <1>6 DEF Unread
    <2> QED BY <1>1, <1>2, <1>6, <2>1 DEF FeedInv
  <1> QED BY <1>u, <1>4, <1>5, <1>6

\* A listing or delisting during a refresh is remembered by it.
LEMMA ChangesAreNoted ==
    ASSUME FeedInv, ListingChanges
    PROVE  FeedInv' /\ closed' = closed
  <1>1. PICK m \in Market :
          /\ listed' = (IF m \in listed THEN listed \ {m} ELSE listed \cup {m})
          /\ absent' = IF sweep /\ m \in listed THEN absent \cup {m} ELSE absent
    BY DEF ListingChanges
  <1>2. UNCHANGED <<stage, cursor, closed, sweep, seen>>
    BY DEF ListingChanges, listing, catalogue
  <1>3. sweep => Unread'
    <2> SUFFICES ASSUME sweep PROVE Unread'
      OBVIOUS
    <2>1. Unread
      BY DEF FeedInv
    <2>2. CASE m \in listed
      BY <1>1, <1>2, <2>1, <2>2 DEF Unread
    <2>3. CASE m \notin listed
      BY <1>1, <1>2, <2>1, <2>3 DEF Unread
    <2> QED BY <2>2, <2>3
  <1> QED BY <1>2, <1>3 DEF FeedInv

\* A step that changes neither listings nor refresh, nor ends the running.
LEMMA NothingIsClosed ==
    ASSUME FeedInv, UNCHANGED <<listed, refresh, closed>>, cursor' \in Nat,
           stage = "running" => cursor' = cursor /\ (sweep => stage' = "running")
    PROVE  FeedInv' /\ closed' = closed
  <1>1. sweep' = sweep /\ seen' = seen /\ absent' = absent
    BY DEF refresh
  <1> QED BY <1>1 DEF FeedInv, Unread

\* Each step keeps the invariant, and closes no market that was listed all along.
LEMMA FeedStep ==
    ASSUME FeedInv, [FeedNext]_feedVars
    PROVE  FeedInv' /\ \A m \in closed' \ closed : m \notin listed \/ m \in absent
  <1>0. cursor \in Nat
    BY DEF FeedInv
  <1>a. NextCursor("kalshi", cursor) \in Nat /\ NextCursor("polymarket", cursor) \in Nat
    BY <1>0, PageByPage DEF Venue
  <1>1. CASE Initialize
    <2>1. UNCHANGED <<listed, refresh, closed>> /\ stage # "running"
      BY <1>1 DEF Initialize, KalshiPage, KalshiRateLimited, KalshiPageFails, KalshiEvents, KalshiDiscovered,
            SeriesFetched, SeriesRefused, PolymarketPage, PolymarketPageFails, InitializeGoesOn,
            KalshiListed, PolymarketListed, catalogue, Dialed
    <2>2. cursor' \in Nat
      BY <1>0, <1>1, <1>a DEF Initialize, KalshiPage, KalshiRateLimited, KalshiPageFails, KalshiEvents,
            KalshiDiscovered, SeriesFetched, SeriesRefused, PolymarketPage, PolymarketPageFails,
            InitializeGoesOn, KalshiListed, PolymarketListed, NewListing, listing
    <2> QED BY <2>1, <2>2, NothingIsClosed
  <1>2. CASE ListingChanges
    BY <1>2, ChangesAreNoted
  <1>3. CASE \E v \in Venue : Connection(v) \/ Drops(v) \/ Disconnects(v)
    <2>1. UNCHANGED <<listed, refresh, closed, cursor>>
      BY <1>3 DEF Connection, Connects, DialFails, DialsAgain, Drops, Disconnects, catalogue, listing
    <2>2. stage = "running" /\ sweep => stage' = "running"
      BY <1>3 DEF Connection, Connects, DialFails, DialsAgain, Drops, Disconnects, HandleReconnection, Return, Dialing, Dialed
    <2> QED BY <1>0, <2>1, <2>2, NothingIsClosed
  <1>4. CASE \E m \in Market : PriceUpdate(m)
    <2>1. UNCHANGED <<listed, refresh, closed, cursor, stage>>
      BY <1>4 DEF PriceUpdate, listing
    <2> QED BY <1>0, <2>1, NothingIsClosed
  <1>5. CASE RefreshStarts
    <2>1. Unread'
      BY <1>5 DEF RefreshStarts, NewListing, Unread
    <2> QED BY <1>5, <2>1 DEF RefreshStarts, NewListing, catalogue, FeedInv
  <1>6. CASE RefreshPage
    BY <1>6, ClosesTheMissing
  <1>7. CASE RefreshFails
    BY <1>7 DEF RefreshFails, RefreshEnds, NewListing, FeedInv
  <1>8. CASE UNCHANGED feedVars
    <2>1. UNCHANGED <<listed, refresh, closed, cursor, stage>>
      BY <1>8 DEF feedVars, listing, catalogue
    <2> QED BY <1>0, <2>1, NothingIsClosed
  <1> QED BY <1>1, <1>2, <1>3, <1>4, <1>5, <1>6, <1>7, <1>8 DEF FeedNext

\* The refresh of the catalogue (refresh_markets): whatever is listed, delisted,
\* refused or cut short, no market that was listed during a whole refresh is
\* closed by it.
THEOREM ListedStaysOpen == FeedSpec => ListedIsNotClosed
  <1>1. FeedInit => FeedInv
    BY DEF FeedInit, FeedInv
  <1>2. FeedInv /\ [FeedNext]_feedVars => FeedInv'
    BY FeedStep
  <1>3. FeedInv /\ [FeedNext]_feedVars => [\A m \in closed' \ closed : m \notin listed \/ m \in absent]_feedVars
    BY FeedStep
  <1> QED BY <1>1, <1>2, <1>3, PTL DEF FeedSpec, ListedIsNotClosed
=============================================================================
