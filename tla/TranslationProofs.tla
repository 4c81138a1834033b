--------------------------- MODULE TranslationProofs ---------------------------
(***************************************************************************)
(* Theorems of the translation of a book: the limits of its provider calls *)
(* (ProviderRequests), for any number of calls, routes, permits, retries,  *)
(* requests and tokens, and the resumption of an interrupted invocation    *)
(* (TranslationBatches), for any book, mode, batch size and number of      *)
(* interruptions.                                                          *)
(***************************************************************************)
EXTENDS ProviderRequests, TranslationBatches, FiniteSetTheorems, SequenceTheorems,
        NaturalsInduction, WellFoundedInduction, TLAPS

-----------------------------------------------------------------------------
(* Numbers                                                                 *)

LEMMA SmallestNumber ==
    ASSUME NEW T \in SUBSET Nat, T # {}
    PROVE  \E m \in T : \A n \in T : m <= n
<1>1. PICK m \in T : \A n \in T : ~(<<n, m>> \in OpToRel(<, Nat))
  BY NatLessThanWellFounded, WFMin
<1>2. \A n \in T : ~(n < m)
  BY <1>1 DEF OpToRel
<1> QED BY <1>2

-----------------------------------------------------------------------------
(* ProviderRequests: the calls                                             *)

LEMMA MinIsLeast ==
    ASSUME NEW T \in SUBSET Nat, T # {}
    PROVE  Min(T) \in T /\ \A n \in T : Min(T) <= n
BY SmallestNumber DEF Min

Calls == [pc : {"idle", "route", "waiting", "checked", "requesting", "backoff"} \cup Ended,
          route : 1..Len(Routes), tries : 0..MaxRetries + 1]
GoesOn(pc) == pc \in {"idle", "route", "waiting", "checked", "backoff"}

\* A call that goes on has an attempt left on its route.
CallsInv ==
    /\ call \in [Call -> Calls]
    /\ \A k \in Call : GoesOn(call[k].pc) => call[k].tries <= MaxRetries

\* What a step does to the requests in flight: nothing, one begins, or one ends.
Quiet ==
    /\ UNCHANGED <<active, requests, reservedTokens, billed>>
    /\ \A k \in Call : /\ call[k].pc = "requesting" <=> call'[k].pc = "requesting"
                       /\ call[k].pc = "requesting" => call'[k] = call[k]
Begins(k) ==
    /\ ~MustWait(k) /\ ~(requests >= MaxRequests)
    /\ call[k].pc = "checked" /\ call'[k].pc = "requesting" /\ call'[k].route = call[k].route
    /\ active' = [active EXCEPT ![ConnectionOf(k)] = @ + 1]
    /\ requests' = requests + 1
    /\ reservedTokens' = reservedTokens + Estimate
    /\ billed' = billed
Ends(k, tokens) ==
    /\ call[k].pc = "requesting" /\ call'[k].pc # "requesting"
    /\ active' = [active EXCEPT ![ConnectionOf(k)] = @ - 1]
    /\ requests' = requests
    /\ reservedTokens' = reservedTokens + tokens - Estimate
    /\ billed' = billed + tokens
OthersStay(k) == \A x \in Call \ {k} : call'[x] = call[x]
Flights ==
    \/ Quiet
    \/ \E k \in Call : OthersStay(k) /\ Begins(k)
    \/ \E k \in Call, tokens \in Nat :
          OthersStay(k) /\ Ends(k, tokens) /\ tokens \in 1..Estimate

LEMMA CallsStep ==
    ASSUME CallsInv, [RequestNext]_requestVars
    PROVE  CallsInv' /\ Flights
<1> USE RequestAssumption DEF CallsInv, Calls, Ended, GoesOn
<1>0. Len(Routes) \in Nat \ {0}
  BY EmptySeq
<1>1. CASE UNCHANGED requestVars \/ StopRequests \/ Tick
  <2>1. UNCHANGED <<call, active, requests, reservedTokens, billed>>
    BY <1>1 DEF StopRequests, Tick, requestLimits, requestVars
  <2>2. QED BY <2>1 DEF Flights, Quiet
<1>2. ASSUME NEW k \in Call, BeginCall(k) \/ BeginRoute(k) \/ CheckStop(k) \/ EndBackoff(k)
      PROVE  CallsInv' /\ Flights
  <2>1. PICK pc \in {"route", "waiting", "checked", "stopped"} : CallGoes(k, pc)
    BY <1>2 DEF BeginCall, BeginRoute, CheckStop, EndBackoff
  <2>2. UNCHANGED requestLimits /\ GoesOn(call[k].pc)
    BY <1>2 DEF BeginCall, BeginRoute, CheckStop, EndBackoff
  <2>3. CallsInv'
    BY <2>1, <2>2 DEF CallGoes
  <2>4. Quiet
    BY <2>1, <2>2 DEF CallGoes, Quiet, requestLimits
  <2>5. QED BY <2>3, <2>4 DEF Flights
<1>3. ASSUME NEW k \in Call, TakePermit(k)
      PROVE  CallsInv' /\ Flights
  <2>1. CASE Refused \/ MustWait(k)
    <3>1. PICK pc \in {"waiting", "stopped"} : CallGoes(k, pc)
      BY <1>3, <2>1 DEF TakePermit
    <3>2. UNCHANGED <<active, requests, reservedTokens, billed>> /\ call[k].pc = "checked"
      BY <1>3, <2>1 DEF TakePermit
    <3>3. CallsInv'
      BY <3>1, <3>2 DEF CallGoes
    <3>4. Quiet
      BY <3>1, <3>2 DEF CallGoes, Quiet
    <3>5. QED BY <3>3, <3>4 DEF Flights
  <2>2. CASE ~Refused /\ ~MustWait(k)
    <3>1. /\ call[k].pc = "checked"
          /\ call' = [call EXCEPT ![k].pc = "requesting", ![k].tries = @ + 1]
          /\ active' = [active EXCEPT ![ConnectionOf(k)] = @ + 1]
          /\ requests' = requests + 1
          /\ reservedTokens' = reservedTokens + Estimate
          /\ billed' = billed
      BY <1>3, <2>2 DEF TakePermit
    <3>2. call[k].tries + 1 \in 0..MaxRetries + 1
      BY <3>1
    <3>3. CallsInv'
      BY <3>1, <3>2
    <3>4. ~(requests >= MaxRequests)
      BY <2>2 DEF Refused
    <3>5. OthersStay(k) /\ Begins(k)
      BY <2>2, <3>1, <3>4 DEF OthersStay, Begins
    <3>6. QED BY <3>3, <3>5 DEF Flights
  <2>3. QED BY <2>1, <2>2
<1>4. ASSUME NEW k \in Call, Reply(k)
      PROVE  CallsInv' /\ Flights
  <2>1. PICK tokens \in Actual \cup {Estimate} : GiveBack(k, tokens)
    BY <1>4 DEF Reply, RequestSucceeds, RequestFailsForNow, RequestFails
  <2>2. tokens \in 1..Estimate
    BY <2>1
  <2>3. call[k].pc = "requesting"
    BY <1>4 DEF Reply, RequestSucceeds, RequestFailsForNow, RequestFails
  <2>4. CASE RequestSucceeds(k) \/ RequestFails(k)
    <3>1. PICK pc \in {"completed", "failed"} : CallGoes(k, pc)
      BY <2>4 DEF RequestSucceeds, RequestFails
    <3>2. CallsInv' /\ OthersStay(k) /\ call'[k].pc # "requesting"
      BY <2>3, <3>1 DEF CallGoes, OthersStay
    <3>3. OthersStay(k) /\ Ends(k, tokens)
      BY <2>1, <2>3, <3>2 DEF Ends, GiveBack
    <3>4. QED BY <2>2, <3>2, <3>3 DEF Flights
  <2>5. CASE RequestFailsForNow(k)
    <3> DEFINE next == IF call[k].tries <= MaxRetries THEN [call[k] EXCEPT !.pc = "backoff"]
                       ELSE IF call[k].route < Len(Routes)
                            THEN [pc |-> "route", route |-> call[k].route + 1, tries |-> 0]
                       ELSE [call[k] EXCEPT !.pc = "failed"]
    <3>1. call' = [call EXCEPT ![k] = next]
      BY <2>5 DEF RequestFailsForNow
    <3>2. next \in Calls /\ next.pc # "requesting" /\ (GoesOn(next.pc) => next.tries <= MaxRetries)
      <4>1. CASE call[k].tries <= MaxRetries
        BY <4>1
      <4>2. CASE ~(call[k].tries <= MaxRetries) /\ call[k].route < Len(Routes)
        <5>1. call[k].route + 1 \in 1..Len(Routes)
          BY <1>0, <4>2
        <5>2. QED BY <4>2, <5>1
      <4>3. CASE ~(call[k].tries <= MaxRetries) /\ ~(call[k].route < Len(Routes))
        BY <4>3
      <4>4. QED BY <4>1, <4>2, <4>3
    <3> HIDE DEF next
    <3>3. CallsInv' /\ OthersStay(k) /\ call'[k].pc # "requesting"
      BY <3>1, <3>2 DEF OthersStay
    <3>4. OthersStay(k) /\ Ends(k, tokens)
      BY <2>1, <2>3, <3>3 DEF Ends, GiveBack
    <3>5. QED BY <2>2, <3>3, <3>4 DEF Flights
  <2>6. QED BY <1>4, <2>4, <2>5 DEF Reply
<1>5. QED
  BY <1>1, <1>2, <1>3, <1>4 DEF RequestNext, CallStep

-----------------------------------------------------------------------------
(* ProviderRequests: permits and tokens                                    *)

Flying == {k \in Call : call[k].pc = "requesting"}

PermitsInv ==
    /\ IsFiniteSet(Flying)
    /\ active \in [Connection -> Nat]
    /\ \A c \in Connection : /\ active[c] = Cardinality(Requesting(c))
                             /\ active[c] <= Permits[c]

LEMMA PermitsStep ==
    ASSUME CallsInv, PermitsInv, CallsInv', Flights
    PROVE  PermitsInv'
<1> USE RequestAssumption
<1>0. /\ \A k \in Call : ConnectionOf(k) \in Connection
      /\ \A c \in Connection : IsFiniteSet(Requesting(c)) /\ Cardinality(Requesting(c)) \in Nat
  <2>1. \A k \in Call : ConnectionOf(k) \in Connection
    BY ElementOfSeq DEF CallsInv, Calls, ConnectionOf
  <2>2. ASSUME NEW c \in Connection PROVE IsFiniteSet(Requesting(c)) /\ Cardinality(Requesting(c)) \in Nat
    <3>1. Requesting(c) \subseteq Flying
      BY DEF Requesting, Flying
    <3>2. QED BY <3>1, FS_Subset, FS_CardinalityType DEF PermitsInv
  <2>3. QED BY <2>1, <2>2
<1>1. CASE Quiet
  <2>1. Flying' = Flying
    BY <1>1 DEF Quiet, Flying
  <2>2. \A c \in Connection : Requesting(c)' = Requesting(c)
    BY <1>1 DEF Quiet, Requesting, ConnectionOf
  <2>3. QED BY <1>1, <2>1, <2>2 DEF PermitsInv, Quiet
<1>2. ASSUME NEW k \in Call, OthersStay(k), Begins(k)
      PROVE  PermitsInv'
  <2>0. PICK own \in Connection : own = ConnectionOf(k)
    BY <1>0
  <2>1. own \in Connection /\ active[own] < Permits[own]
    BY <2>0, <1>2 DEF Begins, MustWait, PermitsInv
  <2>2. /\ Flying' = Flying \cup {k} /\ k \notin Flying
        /\ k \notin Requesting(own) /\ Requesting(own)' = Requesting(own) \cup {k}
        /\ \A c \in Connection \ {own} : Requesting(c)' = Requesting(c)
    BY <1>2, <2>0 DEF Begins, OthersStay, Flying, Requesting, ConnectionOf
  <2>3. IsFiniteSet(Flying')
    BY <2>2, FS_AddElement DEF PermitsInv
  <2>4. active' = [active EXCEPT ![own] = active[own] + 1]
    BY <1>2, <2>0 DEF Begins
  <2>5. Cardinality(Requesting(own)') = Cardinality(Requesting(own)) + 1
    BY <1>0, <2>1, <2>2, FS_AddElement
  <2>6. active' \in [Connection -> Nat]
    BY <2>1, <2>4 DEF PermitsInv
  <2>7. ASSUME NEW c \in Connection
        PROVE  active'[c] = Cardinality(Requesting(c)') /\ active'[c] <= Permits[c]
    <3>1. CASE c = own
      BY <2>1, <2>4, <2>5, <3>1 DEF PermitsInv
    <3>2. CASE c # own
      BY <2>2, <2>4, <3>2 DEF PermitsInv
    <3>3. QED BY <3>1, <3>2
  <2>8. QED BY <2>3, <2>6, <2>7 DEF PermitsInv
<1>3. ASSUME NEW k \in Call, NEW tokens \in Nat, OthersStay(k), Ends(k, tokens)
      PROVE  PermitsInv'
  <2>1. PICK own \in Connection : own = ConnectionOf(k)
    BY <1>0
  <2>2. /\ Flying' = Flying \ {k}
        /\ k \in Requesting(own) /\ Requesting(own)' = Requesting(own) \ {k}
        /\ \A c \in Connection \ {own} : Requesting(c)' = Requesting(c)
    BY <1>3, <2>1 DEF Ends, OthersStay, Flying, Requesting, ConnectionOf
  <2>3. IsFiniteSet(Flying')
    BY <2>2, FS_RemoveElement DEF PermitsInv
  <2>4. active' = [active EXCEPT ![own] = active[own] - 1]
    BY <1>3, <2>1 DEF Ends
  <2>5. /\ Cardinality(Requesting(own)') = Cardinality(Requesting(own)) - 1
        /\ Cardinality(Requesting(own)) \in Nat /\ Cardinality(Requesting(own)') \in Nat
    <3>1. IsFiniteSet(Requesting(own) \ {k})
      BY <1>0, <2>1, FS_RemoveElement
    <3>2. Cardinality(Requesting(own) \ {k}) = Cardinality(Requesting(own)) - 1
      BY <1>0, <2>1, <2>2, FS_RemoveElement
    <3>3. Cardinality(Requesting(own) \ {k}) \in Nat
      BY <3>1, FS_CardinalityType
    <3>4. QED BY <1>0, <2>1, <2>2, <3>2, <3>3
  <2>6. active[own] - 1 \in Nat
    BY <2>1, <2>5 DEF PermitsInv
  <2>7. active' \in [Connection -> Nat]
    BY <2>4, <2>6 DEF PermitsInv
  <2>8. ASSUME NEW c \in Connection
        PROVE  active'[c] = Cardinality(Requesting(c)') /\ active'[c] <= Permits[c]
    <3>1. CASE c = own
      BY <2>1, <2>4, <2>5, <3>1 DEF PermitsInv
    <3>2. CASE c # own
      BY <2>2, <2>4, <3>2 DEF PermitsInv
    <3>3. QED BY <3>1, <3>2
  <2>9. QED BY <2>3, <2>7, <2>8 DEF PermitsInv
<1>4. QED BY <1>1, <1>2, <1>3 DEF Flights

TokensInv ==
    /\ IsFiniteSet(Flying)
    /\ requests \in 0..MaxRequests /\ billed \in Nat
    /\ reservedTokens = billed + Estimate * Cardinality(Flying)
    /\ reservedTokens <= MaxTokens

LEMMA TokensStep ==
    ASSUME TokensInv, Flights
    PROVE  TokensInv'
<1> USE RequestAssumption DEF TokensInv
<1> DEFINE n == Cardinality(Flying)
<1>0. n \in Nat
  BY FS_CardinalityType
<1>1. CASE Quiet
  <2>1. Flying' = Flying
    BY <1>1 DEF Quiet, Flying
  <2>2. QED BY <1>1, <2>1 DEF Quiet
<1>2. ASSUME NEW k \in Call, OthersStay(k), Begins(k)
      PROVE  TokensInv'
  <2>1. Flying' = Flying \cup {k} /\ k \notin Flying
    BY <1>2 DEF Begins, OthersStay, Flying
  <2>2. IsFiniteSet(Flying') /\ Cardinality(Flying') = n + 1
    BY <2>1, FS_AddElement
  <2>3. Estimate * (n + 1) = Estimate * n + Estimate
    BY <1>0
  <2>4. reservedTokens + Estimate <= MaxTokens
    <3>1. reservedTokens \in Nat
      BY <1>0
    <3>2. QED BY <1>2, <3>1 DEF Begins, MustWait, OverTokens
  <2>5. /\ reservedTokens' = reservedTokens + Estimate /\ requests' = requests + 1
        /\ billed' = billed /\ ~(requests >= MaxRequests)
    BY <1>2 DEF Begins
  <2> HIDE DEF n
  <2>6. Estimate * n \in Nat
    BY <1>0
  <2>7. reservedTokens' = billed' + Estimate * (n + 1)
    BY <2>3, <2>5, <2>6 DEF n
  <2>8. QED BY <2>2, <2>4, <2>5, <2>7
<1>3. ASSUME NEW k \in Call, NEW tokens \in 1..Estimate, OthersStay(k), Ends(k, tokens)
      PROVE  TokensInv'
  <2>1. Flying' = Flying \ {k} /\ k \in Flying
    BY <1>3 DEF Ends, OthersStay, Flying
  <2>2. IsFiniteSet(Flying') /\ Cardinality(Flying') = n - 1 /\ Cardinality(Flying') \in Nat
    BY <2>1, FS_RemoveElement, FS_CardinalityType
  <2>3. Estimate * (n - 1) = Estimate * n - Estimate
    BY <1>0
  <2>5. /\ reservedTokens' = reservedTokens + tokens - Estimate /\ requests' = requests
        /\ billed' = billed + tokens
    BY <1>3 DEF Ends
  <2> HIDE DEF n
  <2>6. Estimate * n \in Nat
    BY <1>0
  <2>7. reservedTokens' = billed' + Estimate * (n - 1)
    BY <2>3, <2>5, <2>6 DEF n
  <2>8. Estimate * (n - 1) \in Nat
    BY <2>2 DEF n
  <2>9. billed' \in Nat /\ reservedTokens' <= reservedTokens
    BY <2>5, <2>6 DEF n
  <2>10. reservedTokens' <= MaxTokens
    BY <2>5, <2>6, <2>9 DEF n
  <2>11. QED BY <2>2, <2>5, <2>7, <2>9, <2>10 DEF n
<1>4. QED BY <1>1, <1>2, <1>3 DEF Flights

-----------------------------------------------------------------------------
(* ProviderRequests: the minute                                            *)

Reservations == [age : 0..Minute, tokens : 1..Estimate, by : Call, held : BOOLEAN]
Fresh == {n \in DOMAIN startAges : startAges[n] < Minute}
Gone == Len(startAges) - Len(window)

\* The window is what the last requests started have reserved; those before it are a minute old.
WindowInv ==
    /\ window \in Seq(Reservations) /\ startAges \in Seq(0..Minute)
    /\ Gone \in Nat
    /\ \A n \in DOMAIN window : window[n].age = startAges[Gone + n]
    /\ \A n \in 1..Gone : startAges[n] = Minute
    /\ \A m, n \in DOMAIN startAges : m < n => startAges[m] >= startAges[n]

RateInv == IsFiniteSet(Fresh) /\ RateIsRespected

\* What popping a minute's reservations leaves of the window.
LEMMA PrunedWindow ==
    ASSUME WindowInv
    PROVE  \E gone \in Nat :
              /\ Pruned(window) \in Seq(Reservations)
              /\ Len(Pruned(window)) = Len(startAges) - gone
              /\ gone <= Len(startAges)
              /\ \A n \in DOMAIN Pruned(window) : Pruned(window)[n].age = startAges[gone + n]
              /\ \A n \in 1..gone : startAges[n] = Minute
<1> DEFINE kept == {n \in DOMAIN window : window[n].age < Minute}
           all == Len(startAges)
<1>0. /\ DOMAIN window = 1..Len(window) /\ DOMAIN startAges = 1..all
      /\ Len(window) \in Nat /\ all \in Nat /\ Gone = all - Len(window)
      /\ \A n \in DOMAIN window : window[n] \in Reservations
      /\ \A n \in DOMAIN startAges : startAges[n] \in 0..Minute
  <2>1. /\ DOMAIN window = 1..Len(window) /\ Len(window) \in Nat
        /\ \A n \in DOMAIN window : window[n] \in Reservations
    BY ElementOfSeq, LenProperties DEF WindowInv
  <2>2. /\ DOMAIN startAges = 1..all /\ all \in Nat
        /\ \A n \in DOMAIN startAges : startAges[n] \in 0..Minute
    BY ElementOfSeq, LenProperties DEF WindowInv
  <2>3. QED BY <2>1, <2>2 DEF Gone
<1>1. CASE kept = {}
  <2>1. Pruned(window) = << >>
    BY <1>1 DEF Pruned, From
  <2>2. ASSUME NEW n \in 1..all PROVE startAges[n] = Minute
    <3>1. CASE n <= Gone
      BY <1>0, <3>1 DEF WindowInv
    <3>2. CASE n > Gone
      <4>1. n - Gone \in DOMAIN window /\ Gone + (n - Gone) = n
        BY <1>0, <3>2 DEF WindowInv
      <4>2. window[n - Gone].age = startAges[n] /\ ~(window[n - Gone].age < Minute)
        BY <1>1, <4>1 DEF WindowInv
      <4>3. startAges[n] \in 0..Minute
        BY <1>0
      <4>4. QED BY <4>2, <4>3, RequestAssumption
    <3>3. QED BY <1>0, <3>1, <3>2 DEF WindowInv
  <2>3. << >> \in Seq(Reservations) /\ Len(<< >>) = 0 /\ DOMAIN << >> = {}
    BY EmptySeq
  <2>4. Pruned(window) \in Seq(Reservations) /\ Len(Pruned(window)) = all - all
    BY <1>0, <2>1, <2>3
  <2>5. \A n \in DOMAIN Pruned(window) : Pruned(window)[n].age = startAges[all + n]
    BY <2>1, <2>3
  <2>6. all \in Nat /\ all <= Len(startAges)
    BY <1>0
  <2>7. QED BY <2>2, <2>4, <2>5, <2>6
<1>2. CASE kept # {}
  <2>1. kept \in SUBSET Nat
    BY <1>0
  <2>2. PICK least \in kept : least = Min(kept) /\ \A n \in kept : least <= n
    BY <1>2, <2>1, MinIsLeast
  <2> DEFINE rest == SubSeq(window, least, Len(window))
             gone == Gone + least - 1
  <2>3. Pruned(window) = rest
    BY <1>2, <2>2 DEF Pruned, From
  <2>4. least \in 1..Len(window)
    BY <1>0
  <2>5. /\ rest \in Seq(Reservations) /\ Len(rest) = Len(window) - least + 1
        /\ \A n \in 1..(Len(window) - least + 1) : rest[n] = window[least + n - 1]
    BY <1>0, <2>4, SubSeqProperties
  <2>6. DOMAIN rest = 1..(Len(window) - least + 1)
    BY <2>5, LenProperties
  <2> HIDE DEF rest, kept
  <2>7. gone \in Nat /\ gone <= all /\ Len(rest) = all - gone
    BY <1>0, <2>4, <2>5 DEF WindowInv
  <2>8. ASSUME NEW n \in DOMAIN rest PROVE rest[n].age = startAges[gone + n]
    <3>1. rest[n] = window[least + n - 1] /\ least + n - 1 \in DOMAIN window
      BY <1>0, <2>4, <2>5, <2>6
    <3>2. Gone + (least + n - 1) = gone + n
      BY <1>0, <2>4, <2>6 DEF WindowInv
    <3>3. QED BY <3>1, <3>2 DEF WindowInv
  <2>9. ASSUME NEW n \in 1..gone PROVE startAges[n] = Minute
    <3>1. CASE n <= Gone
      BY <1>0, <3>1 DEF WindowInv
    <3>2. CASE n > Gone
      <4>1. n - Gone \in DOMAIN window /\ Gone + (n - Gone) = n /\ n - Gone < least
            /\ n \in DOMAIN startAges
        BY <1>0, <3>2, <2>4 DEF WindowInv
      <4>2. n - Gone \notin kept
        BY <1>0, <2>1, <2>2, <4>1
      <4>3. window[n - Gone].age = startAges[n] /\ ~(window[n - Gone].age < Minute)
        BY <4>1, <4>2 DEF WindowInv, kept
      <4>4. startAges[n] \in 0..Minute
        BY <1>0, <4>1
      <4>5. QED BY <4>3, <4>4, RequestAssumption
    <3>3. QED BY <1>0, <3>1, <3>2 DEF WindowInv
  <2> HIDE DEF gone
  <2>10. QED BY <2>3, <2>5, <2>7, <2>8, <2>9
<1>3. QED BY <1>1, <1>2

\* What a step does to the window: nothing, to the window alone, or a request starts or a tick.
Kept(gone) ==
    /\ gone \in Nat /\ gone <= Len(startAges)
    /\ window' \in Seq(Reservations) /\ startAges' = startAges
    /\ Len(window') = Len(startAges) - gone
    /\ \A n \in DOMAIN window' : window'[n].age = startAges[gone + n]
    /\ \A n \in 1..gone : startAges[n] = Minute

LEMMA KeptWindow ==
    ASSUME WindowInv, RateInv, NEW gone \in Nat, Kept(gone)
    PROVE  WindowInv' /\ RateInv'
<1>1. Len(startAges) \in Nat
  BY LenProperties DEF WindowInv
<1>2. Gone' = gone
  BY <1>1 DEF Gone, Kept
<1>3. WindowInv'
  BY <1>2 DEF Kept, WindowInv
<1>4. RateInv'
  BY DEF Kept, RateInv, RateIsRespected, Fresh
<1>5. QED BY <1>3, <1>4

LEMMA PrunedAlone ==
    ASSUME WindowInv, RateInv, window' = Pruned(window), startAges' = startAges
    PROVE  WindowInv' /\ RateInv'
<1>1. PICK gone \in Nat :
         /\ Pruned(window) \in Seq(Reservations)
         /\ Len(Pruned(window)) = Len(startAges) - gone
         /\ gone <= Len(startAges)
         /\ \A n \in DOMAIN Pruned(window) : Pruned(window)[n].age = startAges[gone + n]
         /\ \A n \in 1..gone : startAges[n] = Minute
  BY PrunedWindow
<1>2. Kept(gone)
  BY <1>1 DEF Kept
<1>3. QED BY <1>2, KeptWindow

LEMMA Appended ==
    ASSUME NEW S, NEW s \in Seq(S), NEW e \in S
    PROVE  /\ Len(s) \in Nat /\ DOMAIN s = 1..Len(s) /\ \A n \in 1..Len(s) : s[n] \in S
           /\ Append(s, e) \in Seq(S) /\ Len(Append(s, e)) = Len(s) + 1
           /\ DOMAIN Append(s, e) = 1..(Len(s) + 1)
           /\ \A n \in 1..Len(s) : Append(s, e)[n] = s[n]
           /\ Append(s, e)[Len(s) + 1] = e
<1>1. Len(s) \in Nat /\ DOMAIN s = 1..Len(s) /\ \A n \in 1..Len(s) : s[n] \in S
  BY LenProperties, ElementOfSeq
<1>2. /\ Append(s, e) \in Seq(S) /\ Len(Append(s, e)) = Len(s) + 1
      /\ \A n \in 1..Len(s) : Append(s, e)[n] = s[n]
      /\ Append(s, e)[Len(s) + 1] = e
  BY AppendProperties
<1>3. DOMAIN Append(s, e) = 1..(Len(s) + 1)
  BY <1>2, LenProperties
<1>4. QED BY <1>1, <1>2, <1>3

LEMMA StartedRequest ==
    ASSUME WindowInv, RateInv, NEW k \in Call,
           window' = Append(Pruned(window), [age |-> 0, tokens |-> Estimate, by |-> k, held |-> TRUE]),
           startAges' = Append(startAges, 0), ~(Len(Pruned(window)) >= RPM)
    PROVE  WindowInv' /\ RateInv'
<1> USE RequestAssumption
<1> DEFINE new == [age |-> 0, tokens |-> Estimate, by |-> k, held |-> TRUE]
           w == Pruned(window)
           all == Len(startAges)
<1>1. PICK gone \in Nat :
         /\ w \in Seq(Reservations)
         /\ Len(w) = all - gone
         /\ gone <= all
         /\ \A n \in DOMAIN w : w[n].age = startAges[gone + n]
         /\ \A n \in 1..gone : startAges[n] = Minute
  BY PrunedWindow
<1>2. new \in Reservations /\ 0 \in 0..Minute
  BY DEF Reservations
<1>3. w \in Seq(Reservations) /\ startAges \in Seq(0..Minute)
      /\ window' = Append(w, new) /\ startAges' = Append(startAges, 0)
  BY <1>1 DEF WindowInv
<1> HIDE DEF w, new, all
<1>4. /\ all \in Nat /\ Len(w) \in Nat /\ DOMAIN w = 1..Len(w) /\ DOMAIN startAges = 1..all
      /\ \A n \in 1..all : startAges[n] \in 0..Minute
  BY <1>2, <1>3, Appended DEF all
<1>5. /\ window' \in Seq(Reservations) /\ Len(window') = Len(w) + 1
      /\ DOMAIN window' = 1..(Len(w) + 1)
      /\ \A n \in 1..Len(w) : window'[n] = w[n]
      /\ window'[Len(w) + 1] = new
  <2>1. /\ Append(w, new) \in Seq(Reservations) /\ Len(Append(w, new)) = Len(w) + 1
        /\ DOMAIN Append(w, new) = 1..(Len(w) + 1)
        /\ \A n \in 1..Len(w) : Append(w, new)[n] = w[n]
        /\ Append(w, new)[Len(w) + 1] = new
    BY <1>2, <1>3, Appended
  <2>2. QED BY <1>3, <2>1
<1>6. /\ startAges' \in Seq(0..Minute) /\ Len(startAges') = all + 1
      /\ DOMAIN startAges' = 1..(all + 1)
      /\ \A n \in 1..all : startAges'[n] = startAges[n]
      /\ startAges'[all + 1] = 0
  BY <1>2, <1>3, Appended DEF all
<1> DEFINE len == Len(w)
<1>a. len \in Nat /\ all \in Nat /\ gone \in Nat /\ len = all - gone /\ gone <= all
  BY <1>1, <1>4
<1> HIDE DEF len
<1>b. /\ \A n \in 1..(len + 1) : n = len + 1 \/ n \in 1..len
      /\ \A n \in 1..(all + 1) : n = all + 1 \/ n \in 1..all
      /\ \A n \in 1..len : gone + n \in 1..all
      /\ gone + (len + 1) = all + 1
  BY <1>a
<1>7. Gone' = gone
  BY <1>1, <1>4, <1>5, <1>6 DEF Gone
<1>8. ASSUME NEW n \in DOMAIN window' PROVE window'[n].age = startAges'[gone + n]
  <2>1. CASE n = Len(w) + 1
    <3>1. window'[n].age = 0 /\ gone + n = all + 1
      BY <1>b, <1>5, <2>1 DEF new, len
    <3>2. QED BY <1>6, <3>1
  <2>2. CASE n \in 1..Len(w)
    <3>1. window'[n] = w[n] /\ n \in DOMAIN w
      BY <1>4, <1>5, <2>2
    <3>2. window'[n].age = startAges[gone + n]
      BY <1>1, <3>1
    <3>3. gone + n \in 1..all
      BY <1>b, <2>2 DEF len
    <3>4. QED BY <1>6, <3>2, <3>3
  <2>3. QED BY <1>b, <1>5, <2>1, <2>2 DEF len
<1>9. \A n \in 1..gone : startAges'[n] = Minute
  BY <1>1, <1>4, <1>6
<1>10. ASSUME NEW m \in DOMAIN startAges', NEW n \in DOMAIN startAges', m < n
       PROVE  startAges'[m] >= startAges'[n]
  <2>0. m \in 1..(all + 1) /\ n \in 1..(all + 1) /\ m \in 1..all
    BY <1>4, <1>6, <1>10
  <2>1. m \in 1..all /\ startAges'[m] = startAges[m] /\ startAges[m] \in 0..Minute
    BY <1>4, <1>6, <2>0
  <2>2. CASE n = all + 1
    BY <1>6, <2>1, <2>2
  <2>3. CASE n \in 1..all
    <3>1. startAges[m] >= startAges[n]
      BY <1>4, <1>10, <2>1, <2>3 DEF WindowInv
    <3>2. QED BY <1>6, <2>1, <2>3, <3>1
  <2>4. QED BY <1>b, <2>0, <2>2, <2>3
<1>11. WindowInv'
  BY <1>5, <1>6, <1>7, <1>8, <1>9, <1>10 DEF WindowInv
<1>12. Fresh' = Fresh \cup {all + 1} /\ all + 1 \notin Fresh
  <2>1. ASSUME NEW n PROVE n \in Fresh' <=> n \in Fresh \cup {all + 1}
    <3>1. n \in Fresh' <=> n \in 1..(all + 1) /\ startAges'[n] < Minute
      BY <1>6 DEF Fresh
    <3>2. n \in Fresh <=> n \in 1..all /\ startAges[n] < Minute
      BY <1>4 DEF Fresh
    <3>3. n \in 1..(all + 1) <=> n \in 1..all \/ n = all + 1
      BY <1>4
    <3>4. QED BY <1>6, <3>1, <3>2, <3>3
  <2>2. Fresh' = Fresh \cup {all + 1}
    BY <2>1
  <2>3. all + 1 \notin Fresh
    BY <1>4 DEF Fresh
  <2>4. QED BY <2>2, <2>3
<1>13. Fresh \subseteq gone + 1..all
  <2>1. ASSUME NEW n \in Fresh PROVE n \in gone + 1..all
    <3>1. n \in 1..all /\ startAges[n] < Minute
      BY <1>4 DEF Fresh
    <3>2. ~(n <= gone)
      BY <1>1, <3>1
    <3>3. QED BY <1>1, <1>4, <3>1, <3>2
  <2>2. QED BY <2>1
<1>14. Cardinality(gone + 1..all) = Len(w) /\ IsFiniteSet(gone + 1..all)
  <2>1. gone + 1 \in Int /\ all \in Int
    BY <1>1, <1>4
  <2>2. /\ IsFiniteSet(gone + 1..all)
        /\ Cardinality(gone + 1..all) = IF gone + 1 > all THEN 0 ELSE all - (gone + 1) + 1
    BY <2>1, FS_Interval
  <2>3. (IF gone + 1 > all THEN 0 ELSE all - (gone + 1) + 1) = len
    BY <1>a
  <2>4. QED BY <2>2, <2>3 DEF len
<1>15. IsFiniteSet(Fresh) /\ Cardinality(Fresh) \in Nat /\ Cardinality(Fresh) <= Len(w)
  BY <1>13, <1>14, FS_Subset, FS_CardinalityType
<1>16. IsFiniteSet(Fresh') /\ Cardinality(Fresh') = Cardinality(Fresh) + 1
  BY <1>12, <1>15, FS_AddElement
<1>17. Len(w) < RPM
  BY <1>4 DEF w
<1>18. RateInv'
  <2>1. Cardinality(Fresh') <= RPM
    BY <1>4, <1>15, <1>16, <1>17
  <2>2. QED BY <1>16, <2>1 DEF RateInv, RateIsRespected, Fresh
<1>19. QED BY <1>11, <1>18

LEMMA TickedWindow ==
    ASSUME WindowInv, RateInv, Tick
    PROVE  WindowInv' /\ RateInv'
<1> USE RequestAssumption
<1> DEFINE all == Len(startAges)
           len == Len(window)
<1>1. /\ DOMAIN window = 1..len /\ len \in Nat /\ \A n \in 1..len : window[n] \in Reservations
      /\ DOMAIN startAges = 1..all /\ all \in Nat /\ \A n \in 1..all : startAges[n] \in 0..Minute
  <2>1. window \in Seq(Reservations) /\ startAges \in Seq(0..Minute)
    BY DEF WindowInv
  <2>2. QED BY <2>1, ElementOfSeq, LenProperties
<1>2. \A age \in 0..Minute : Older(age) \in 0..Minute
  BY DEF Older
<1>3. /\ window' \in [1..len -> Reservations]
      /\ \A n \in 1..len : window'[n].age = Older(window[n].age)
  BY <1>1, <1>2 DEF Tick, Reservations
<1>4. /\ startAges' \in [1..all -> 0..Minute]
      /\ \A n \in 1..all : startAges'[n] = Older(startAges[n])
  BY <1>1, <1>2 DEF Tick
<1>5. /\ window' \in Seq(Reservations) /\ startAges' \in Seq(0..Minute)
      /\ Len(window') = len /\ Len(startAges') = all
      /\ DOMAIN window' = 1..len /\ DOMAIN startAges' = 1..all
  <2>1. window' \in Seq(Reservations) /\ startAges' \in Seq(0..Minute)
    <3>1. Seq(Reservations) = UNION {[1..n -> Reservations] : n \in Nat}
      BY SeqDef
    <3>2. Seq(0..Minute) = UNION {[1..n -> 0..Minute] : n \in Nat}
      BY SeqDef
    <3>3. window' \in Seq(Reservations)
      BY <1>1, <1>3, <3>1
    <3>4. startAges' \in Seq(0..Minute)
      BY <1>1, <1>4, <3>2
    <3>5. QED BY <3>3, <3>4
  <2>2. DOMAIN window' = 1..len /\ DOMAIN startAges' = 1..all
    BY <1>3, <1>4
  <2>3. DOMAIN window' = 1..Len(window') /\ DOMAIN startAges' = 1..Len(startAges')
        /\ Len(window') \in Nat /\ Len(startAges') \in Nat
    BY <2>1, LenProperties
  <2>4. QED BY <1>1, <2>1, <2>2, <2>3
<1> HIDE DEF all, len
<1>6. Gone' = Gone /\ Gone = all - len /\ Gone \in Nat
  BY <1>5 DEF Gone, WindowInv, all, len
<1>7. \A n \in DOMAIN window' : window'[n].age = startAges'[Gone' + n]
  <2>1. ASSUME NEW n \in 1..len PROVE window'[n].age = startAges'[Gone + n]
    <3>1. Gone + n \in 1..all
      BY <1>1, <1>6
    <3>2. window[n].age = startAges[Gone + n]
      BY <1>1 DEF WindowInv
    <3>3. QED BY <1>3, <1>4, <3>1, <3>2
  <2>2. QED BY <1>5, <1>6, <2>1
<1>8. \A n \in 1..Gone' : startAges'[n] = Minute
  <2>1. ASSUME NEW n \in 1..Gone PROVE startAges'[n] = Minute
    <3>1. n \in 1..all /\ startAges[n] = Minute
      BY <1>1, <1>6 DEF WindowInv
    <3>2. Older(Minute) = Minute
      BY DEF Older
    <3>3. QED BY <1>4, <3>1, <3>2
  <2>2. QED BY <1>6, <2>1
<1>9. ASSUME NEW m \in 1..all, NEW n \in 1..all, m < n
      PROVE  startAges'[m] >= startAges'[n]
  <2>1. startAges[m] >= startAges[n] /\ startAges[m] \in 0..Minute /\ startAges[n] \in 0..Minute
    BY <1>1, <1>9 DEF WindowInv
  <2>2. startAges'[m] = Older(startAges[m]) /\ startAges'[n] = Older(startAges[n])
    BY <1>4
  <2>3. Older(startAges[m]) >= Older(startAges[n])
    BY <2>1 DEF Older
  <2>4. QED BY <2>2, <2>3
<1>10. WindowInv'
  BY <1>5, <1>6, <1>7, <1>8, <1>9 DEF WindowInv
<1>11. Fresh' \subseteq Fresh
  <2>1. ASSUME NEW n \in 1..all, startAges'[n] < Minute PROVE startAges[n] < Minute
    BY <1>1, <1>4, <2>1 DEF Older
  <2>2. QED BY <1>1, <1>5, <2>1 DEF Fresh
<1>12. IsFiniteSet(Fresh') /\ Cardinality(Fresh') <= Cardinality(Fresh)
       /\ Cardinality(Fresh') \in Nat /\ Cardinality(Fresh) \in Nat
  <2>1. IsFiniteSet(Fresh)
    BY DEF RateInv
  <2>2. QED BY <1>11, <2>1, FS_Subset, FS_CardinalityType
<1>13. RateInv'
  BY <1>12 DEF RateInv, RateIsRespected, Fresh
<1>14. QED BY <1>10, <1>13

LEMMA GivenBack ==
    ASSUME WindowInv, RateInv, NEW k \in Call, NEW tokens \in 1..Estimate, GiveBack(k, tokens)
    PROVE  WindowInv' /\ RateInv'
<1> USE RequestAssumption
<1> DEFINE len == Len(window)
<1>1. /\ DOMAIN window = 1..len /\ len \in Nat /\ \A n \in 1..len : window[n] \in Reservations
  <2>1. window \in Seq(Reservations)
    BY DEF WindowInv
  <2>2. QED BY <2>1, ElementOfSeq, LenProperties
<1>2. /\ window' \in [1..len -> Reservations]
      /\ \A n \in 1..len : window'[n].age = window[n].age
      /\ startAges' = startAges
  BY <1>1 DEF GiveBack, Reservations
<1>3. /\ window' \in Seq(Reservations) /\ Len(window') = len /\ DOMAIN window' = 1..len
  <2>1. window' \in Seq(Reservations)
    BY <1>1, <1>2, SeqDef
  <2>2. DOMAIN window' = 1..len
    BY <1>2
  <2>3. DOMAIN window' = 1..Len(window') /\ Len(window') \in Nat
    BY <2>1, LenProperties
  <2>4. QED BY <1>1, <2>1, <2>2, <2>3
<1>4. Len(startAges) \in Nat /\ Gone \in Nat /\ Gone = Len(startAges) - len
  BY LenProperties DEF WindowInv, Gone
<1> HIDE DEF len
<1>5. Kept(Gone)
  <2>1. Gone <= Len(startAges) /\ Len(window') = Len(startAges) - Gone
    BY <1>1, <1>3, <1>4
  <2>2. \A n \in DOMAIN window' : window'[n].age = startAges[Gone + n]
    BY <1>1, <1>2, <1>3 DEF WindowInv
  <2>3. QED BY <1>2, <1>3, <1>4, <2>1, <2>2 DEF Kept, WindowInv
<1>6. QED BY <1>4, <1>5, KeptWindow

LEMMA WindowStep ==
    ASSUME WindowInv, RateInv, [RequestNext]_requestVars
    PROVE  WindowInv' /\ RateInv'
<1> USE RequestAssumption
<1>1. CASE UNCHANGED <<window, startAges>>
  BY <1>1 DEF WindowInv, RateInv, RateIsRespected, Fresh, Gone
<1>2. CASE Tick
  BY <1>2, TickedWindow
<1>3. ASSUME NEW k \in Call, TakePermit(k)
      PROVE  WindowInv' /\ RateInv'
  <2>1. CASE Refused \/ MustWait(k)
    BY <1>3, <2>1, PrunedAlone DEF TakePermit
  <2>2. CASE ~Refused /\ ~MustWait(k)
    <3>1. /\ window' = Append(Pruned(window),
                               [age |-> 0, tokens |-> Estimate, by |-> k, held |-> TRUE])
          /\ startAges' = Append(startAges, 0)
      BY <1>3, <2>2 DEF TakePermit
    <3>2. ~(Len(Pruned(window)) >= RPM)
      BY <2>2 DEF MustWait
    <3>3. QED BY <3>1, <3>2, StartedRequest
  <2>3. QED BY <2>1, <2>2
<1>4. ASSUME NEW k \in Call, Reply(k)
      PROVE  WindowInv' /\ RateInv'
  <2>1. PICK tokens \in Actual \cup {Estimate} : GiveBack(k, tokens)
    BY <1>4 DEF Reply, RequestSucceeds, RequestFailsForNow, RequestFails
  <2>2. tokens \in 1..Estimate
    BY <2>1
  <2>3. QED BY <2>1, <2>2, GivenBack
<1>5. CASE StopRequests \/ UNCHANGED requestVars
  BY <1>1, <1>5 DEF StopRequests, requestVars, requestLimits
<1>6. ASSUME NEW k \in Call, BeginCall(k) \/ BeginRoute(k) \/ CheckStop(k) \/ EndBackoff(k)
      PROVE  WindowInv' /\ RateInv'
  BY <1>1, <1>6 DEF BeginCall, BeginRoute, CheckStop, EndBackoff, requestLimits
<1>7. QED BY <1>2, <1>3, <1>4, <1>5, <1>6 DEF RequestNext, CallStep

-----------------------------------------------------------------------------
(* ProviderRequests: the stop                                              *)

\* A call has started nothing late until it stops, and then one request at most, after which it
\* neither looks at the limits nor waits for them.
StopInv ==
    /\ requestStop \in BOOLEAN /\ lateStarts \in [Call -> 0..1]
    /\ \A k \in Call : lateStarts[k] # 0 =>
          requestStop /\ call[k].pc \notin {"idle", "waiting", "checked"}

LEMMA StopStep ==
    ASSUME CallsInv, StopInv, [RequestNext]_requestVars
    PROVE  StopInv'
<1> USE DEF StopInv, CallsInv
<1>1. CASE UNCHANGED requestVars \/ StopRequests \/ Tick
  BY <1>1 DEF StopRequests, Tick, requestLimits, requestVars
<1>2. ASSUME NEW k \in Call, BeginCall(k)
      PROVE  StopInv'
  BY <1>2 DEF BeginCall, CallGoes, requestLimits
<1>3. ASSUME NEW k \in Call, BeginRoute(k) \/ CheckStop(k) \/ EndBackoff(k)
      PROVE  StopInv'
  <2>1. CASE requestStop
    <3>1. CallGoes(k, "stopped") /\ UNCHANGED <<requestLimits, requestStop>>
      BY <1>3, <2>1 DEF BeginRoute, CheckStop, EndBackoff
    <3>2. QED BY <2>1, <3>1 DEF CallGoes, requestLimits
  <2>2. CASE ~requestStop
    BY <1>3, <2>2 DEF BeginRoute, CheckStop, EndBackoff, CallGoes, requestLimits
  <2>3. QED BY <2>1, <2>2
<1>4. ASSUME NEW k \in Call, TakePermit(k)
      PROVE  StopInv'
  <2>1. CASE Refused \/ MustWait(k)
    BY <1>4, <2>1 DEF TakePermit, CallGoes
  <2>2. CASE ~Refused /\ ~MustWait(k)
    <3>1. /\ lateStarts[k] = 0
          /\ lateStarts' = [lateStarts EXCEPT ![k] = IF requestStop THEN 0 + 1 ELSE 0]
          /\ call' = [call EXCEPT ![k].pc = "requesting", ![k].tries = @ + 1]
          /\ requestStop' = requestStop
      BY <1>4, <2>2 DEF TakePermit
    <3>2. QED BY <3>1
  <2>3. QED BY <2>1, <2>2
<1>5. ASSUME NEW k \in Call, Reply(k)
      PROVE  StopInv'
  <2>1. UNCHANGED <<lateStarts, requestStop>>
    BY <1>5 DEF Reply, RequestSucceeds, RequestFailsForNow, RequestFails, GiveBack
  <2>2. /\ \A x \in Call \ {k} : call'[x] = call[x]
        /\ call'[k].pc \notin {"idle", "waiting", "checked"}
    <3>1. CASE RequestSucceeds(k) \/ RequestFails(k)
      <4>1. PICK pc \in {"completed", "failed"} : CallGoes(k, pc)
        BY <3>1 DEF RequestSucceeds, RequestFails
      <4>2. QED BY <4>1 DEF CallGoes, Calls
    <3>2. CASE RequestFailsForNow(k)
      <4> DEFINE next == IF call[k].tries <= MaxRetries THEN [call[k] EXCEPT !.pc = "backoff"]
                         ELSE IF call[k].route < Len(Routes)
                              THEN [pc |-> "route", route |-> call[k].route + 1, tries |-> 0]
                         ELSE [call[k] EXCEPT !.pc = "failed"]
      <4>1. call' = [call EXCEPT ![k] = next]
        BY <3>2 DEF RequestFailsForNow
      <4>2. next.pc \in {"backoff", "route", "failed"}
        BY DEF Calls
      <4> HIDE DEF next
      <4>3. QED BY <4>1, <4>2
    <3>3. QED BY <1>5, <3>1, <3>2 DEF Reply
  <2>3. QED BY <2>1, <2>2
<1>6. QED BY <1>1, <1>2, <1>3, <1>4, <1>5 DEF RequestNext, CallStep

-----------------------------------------------------------------------------
(* ProviderRequests: the theorems                                          *)

RequestInv == CallsInv /\ PermitsInv /\ TokensInv /\ WindowInv /\ RateInv /\ StopInv

LEMMA RequestStarts == RequestInit => RequestInv
<1> SUFFICES ASSUME RequestInit PROVE RequestInv
  OBVIOUS
<1> USE RequestAssumption
<1>1. Len(Routes) \in Nat \ {0}
  BY EmptySeq
<1>2. CallsInv
  BY <1>1 DEF RequestInit, CallsInv, Calls, Ended, GoesOn
<1>3. Flying = {} /\ \A c \in Connection : Requesting(c) = {}
  BY DEF RequestInit, Flying, Requesting
<1>4. IsFiniteSet({}) /\ Cardinality({}) = 0
  BY FS_EmptySet
<1>5. PermitsInv
  <2>1. \A c \in Connection : active[c] = 0 /\ 0 <= Permits[c]
    BY DEF RequestInit
  <2>2. active \in [Connection -> Nat]
    BY DEF RequestInit
  <2>3. QED BY <1>3, <1>4, <2>1, <2>2 DEF PermitsInv
<1>6. TokensInv
  BY <1>3, <1>4 DEF RequestInit, TokensInv
<1>7. /\ << >> \in Seq(Reservations) /\ << >> \in Seq(0..Minute) /\ Len(<< >>) = 0
      /\ DOMAIN << >> = {}
  BY EmptySeq
<1>8. WindowInv
  BY <1>7 DEF RequestInit, WindowInv, Gone
<1>9. Fresh = {}
  BY <1>7 DEF RequestInit, Fresh
<1>10. RateInv
  <2>1. IsFiniteSet(Fresh) /\ Cardinality(Fresh) = 0
    BY <1>4, <1>9
  <2>2. QED BY <2>1 DEF RateInv, RateIsRespected, Fresh
<1>11. StopInv
  <2>1. /\ requestStop = FALSE /\ lateStarts = [k \in Call |-> 0]
    BY DEF RequestInit
  <2>2. \A k \in Call : lateStarts[k] = 0
    BY <2>1
  <2>3. lateStarts \in [Call -> 0..1]
    BY <2>1
  <2>4. QED BY <2>1, <2>2, <2>3 DEF StopInv
<1>12. QED BY <1>2, <1>5, <1>6, <1>8, <1>10, <1>11 DEF RequestInv

LEMMA RequestSteps == RequestInv /\ [RequestNext]_requestVars => RequestInv'
<1> SUFFICES ASSUME RequestInv, [RequestNext]_requestVars PROVE RequestInv'
  OBVIOUS
<1>1. CallsInv' /\ Flights
  BY CallsStep DEF RequestInv
<1>2. PermitsInv' /\ TokensInv'
  BY <1>1, PermitsStep, TokensStep DEF RequestInv
<1>3. WindowInv' /\ RateInv' /\ StopInv'
  BY WindowStep, StopStep DEF RequestInv
<1>4. QED BY <1>1, <1>2, <1>3 DEF RequestInv

\* Every variable of the provider requests keeps its type (RequestTypeOK).
THEOREM RequestsTyped == RequestSpec => []RequestTypeOK
<1>1. RequestInv => RequestTypeOK
  <2> SUFFICES ASSUME RequestInv PROVE RequestTypeOK
    OBVIOUS
  <2>1. reservedTokens \in Nat
    <3>1. Cardinality(Flying) \in Nat
      BY FS_CardinalityType DEF RequestInv, TokensInv
    <3>2. Estimate * Cardinality(Flying) \in Nat
      BY <3>1, RequestAssumption
    <3>3. QED BY <3>2 DEF RequestInv, TokensInv
  <2>2. lateStarts \in [Call -> Nat]
    BY DEF RequestInv, StopInv
  <2>3. QED
    BY <2>1, <2>2 DEF RequestInv, RequestTypeOK, CallsInv, Calls, PermitsInv, TokensInv,
       WindowInv, Reservations, StopInv
<1>2. QED BY <1>1, RequestStarts, RequestSteps, PTL DEF RequestSpec

\* Concurrency, rate, budget and stop hold together (LimitsHold), for any number of calls,
\* connections, routes, retries and ticks of the minute.
THEOREM LimitsAlwaysHold == RequestSpec => []LimitsHold
<1>1. RequestInv => LimitsHold
  <2> SUFFICES ASSUME RequestInv PROVE LimitsHold
    OBVIOUS
  <2>1. PermitsAreRequests
    BY DEF RequestInv, PermitsInv, PermitsAreRequests
  <2>2. RateIsRespected
    BY DEF RequestInv, RateInv
  <2>3. TokensWithinBudget
    BY DEF RequestInv, TokensInv, TokensWithinBudget, Flying
  <2>4. StopEndsCalls
    BY DEF RequestInv, StopInv, StopEndsCalls
  <2>5. QED BY <2>1, <2>2, <2>3, <2>4 DEF LimitsHold
<1>2. QED BY <1>1, RequestStarts, RequestSteps, PTL DEF RequestSpec

-----------------------------------------------------------------------------
(* TranslationBatches: batches                                             *)

LEMMA LargestNumber ==
    ASSUME NEW T \in SUBSET Nat, T # {}, NEW top \in Nat, \A n \in T : n <= top
    PROVE  \E m \in T : \A n \in T : n <= m
<1> DEFINE below == {top - n : n \in T}
<1>1. \A n \in T : n \in Nat /\ top - n \in Nat
  OBVIOUS
<1>2. below \in SUBSET Nat /\ below # {}
  BY <1>1
<1>3. PICK d \in below : \A e \in below : d <= e
  BY <1>2, SmallestNumber
<1>4. PICK m \in T : d = top - m
  BY <1>3
<1>5. ASSUME NEW n \in T PROVE n <= m
  <2>1. top - n \in below
    OBVIOUS
  <2>2. top - m <= top - n
    BY <1>3, <1>4, <2>1
  <2>3. QED BY <1>1, <2>2
<1>6. QED BY <1>5

\* The paragraphs where batches may begin: some of a chapter, its first among them.
AreBeginnings(begins, length) == begins \subseteq 1..length /\ (length > 0 => 1 \in begins)

\* The batches from one beginning to the next, one after the other, cover the chapter.
LEMMA EndIsNext ==
    ASSUME NEW texts \in Seq(Nat), NEW begins, AreBeginnings(begins, Len(texts)), NEW begin \in begins
    PROVE  /\ EndAmong(begins, texts, begin) \in (begin + 1)..(Len(texts) + 1)
           /\ \A next \in begins : next > begin => EndAmong(begins, texts, begin) <= next
           /\ EndAmong(begins, texts, begin) # Len(texts) + 1 => EndAmong(begins, texts, begin) \in begins
<1> DEFINE later == {next \in begins : next > begin} \cup {Len(texts) + 1}
<1>1. Len(texts) \in Nat /\ begins \subseteq 1..Len(texts) /\ begin \in 1..Len(texts)
  BY LenProperties DEF AreBeginnings
<1>2. later \in SUBSET Nat /\ later # {}
  <2>1. Len(texts) + 1 \in Nat /\ begins \subseteq Nat
    BY <1>1
  <2>2. QED BY <2>1
<1>3. Min(later) \in later /\ \A n \in later : Min(later) <= n
  BY <1>2, MinIsLeast
<1>4. EndAmong(begins, texts, begin) = Min(later)
  BY DEF EndAmong
<1> HIDE DEF later
<1>5. PICK end : end = EndAmong(begins, texts, begin)
  OBVIOUS
<1>6. end \in later /\ \A n \in later : end <= n
  BY <1>3, <1>4, <1>5
<1>7. QED BY <1>1, <1>5, <1>6 DEF later

LEMMA BatchesCover ==
    ASSUME NEW texts \in Seq(Nat), NEW begins, AreBeginnings(begins, Len(texts))
    PROVE  /\ \A b \in BatchesFrom(begins, texts) :
                 /\ b.start \in begins /\ b.start \in 1..Len(texts)
                 /\ b.count \in Nat \ {0} /\ b.start + b.count - 1 <= Len(texts)
                 /\ b.done \in BOOLEAN /\ (b.done <=> texts[b.start] # NoText)
                 /\ b.start + b.count = EndAmong(begins, texts, b.start)
           /\ \A b, d \in BatchesFrom(begins, texts) :
                 b # d => b.start + b.count <= d.start \/ d.start + d.count <= b.start
           /\ \A s \in 1..Len(texts) : \E b \in BatchesFrom(begins, texts) : s \in Span(b)
<1>0. Len(texts) \in Nat /\ begins \subseteq 1..Len(texts)
  BY LenProperties DEF AreBeginnings
<1>1. ASSUME NEW b \in BatchesFrom(begins, texts)
      PROVE  /\ b.start \in begins /\ b.start \in 1..Len(texts)
             /\ b.count \in Nat \ {0} /\ b.start + b.count - 1 <= Len(texts)
             /\ b.done \in BOOLEAN /\ (b.done <=> texts[b.start] # NoText)
             /\ b.start + b.count = EndAmong(begins, texts, b.start)
             /\ b = [start |-> b.start, count |-> EndAmong(begins, texts, b.start) - b.start,
                     done |-> texts[b.start] # NoText]
  <2>1. PICK begin \in begins :
           b = [start |-> begin, count |-> EndAmong(begins, texts, begin) - begin,
                done |-> texts[begin] # NoText]
    BY DEF BatchesFrom
  <2>2. b.start = begin /\ b.count = EndAmong(begins, texts, begin) - begin
        /\ b.done = (texts[begin] # NoText)
    BY <2>1
  <2>3. EndAmong(begins, texts, begin) \in (begin + 1)..(Len(texts) + 1)
    BY EndIsNext
  <2>4. PICK end \in (begin + 1)..(Len(texts) + 1) : end = EndAmong(begins, texts, begin)
    BY <2>3
  <2>5. begin \in 1..Len(texts)
    BY <1>0
  <2>6. b.count = end - begin
    BY <2>2, <2>4
  <2>7. end - begin \in Nat \ {0} /\ begin + (end - begin) = end
        /\ begin + (end - begin) - 1 <= Len(texts)
    <3>1. PICK length \in Nat : length = Len(texts)
      BY <1>0
    <3>2. begin \in 1..length /\ end \in (begin + 1)..(length + 1)
      BY <2>4, <2>5, <3>1
    <3>3. begin \in Nat /\ end \in Nat /\ begin + 1 <= end /\ end <= length + 1
      BY <3>2
    <3>4. QED BY <3>1, <3>3
  <2>8. QED BY <2>1, <2>2, <2>4, <2>5, <2>6, <2>7
<1>2. ASSUME NEW b \in BatchesFrom(begins, texts), NEW d \in BatchesFrom(begins, texts), b # d
      PROVE  b.start + b.count <= d.start \/ d.start + d.count <= b.start
  <2>1. b.start \in begins /\ d.start \in begins /\ b.start \in Nat /\ d.start \in Nat
    BY <1>0, <1>1
  <2>2. b.start # d.start
    BY <1>1, <1>2
  <2>3. CASE b.start < d.start
    <3>1. EndAmong(begins, texts, b.start) <= d.start
      BY <2>1, <2>3, EndIsNext
    <3>2. QED BY <1>1, <3>1
  <2>4. CASE d.start < b.start
    <3>1. EndAmong(begins, texts, d.start) <= b.start
      BY <2>1, <2>4, EndIsNext
    <3>2. QED BY <1>1, <3>1
  <2>5. QED BY <2>1, <2>2, <2>3, <2>4
<1>3. ASSUME NEW s \in 1..Len(texts)
      PROVE  \E b \in BatchesFrom(begins, texts) : s \in Span(b)
  <2> DEFINE upto == {begin \in begins : begin <= s}
  <2>1. upto \in SUBSET Nat /\ upto # {} /\ \A n \in upto : n <= s
    <3>1. 1 \in begins /\ 1 <= s /\ begins \subseteq Nat
      BY <1>0 DEF AreBeginnings
    <3>2. QED BY <3>1
  <2> HIDE DEF upto
  <2>2. PICK begin \in upto : \A n \in upto : n <= begin
    <3>1. s \in Nat
      BY <1>0
    <3>2. QED BY <2>1, <3>1, LargestNumber
  <2>3. PICK end : end = EndAmong(begins, texts, begin)
    OBVIOUS
  <2>4. begin \in begins /\ begin \in 1..Len(texts) /\ begin <= s
    BY <1>0 DEF upto
  <2>5. end \in (begin + 1)..(Len(texts) + 1) /\ (end # Len(texts) + 1 => end \in begins)
    BY <2>3, <2>4, EndIsNext
  <2>6. s < end
    <3>1. CASE end = Len(texts) + 1
      BY <1>0, <3>1
    <3>2. CASE end # Len(texts) + 1
      <4>1. SUFFICES ASSUME end <= s PROVE FALSE
        BY <1>0, <2>5
      <4>2. end \in upto
        BY <2>5, <3>2, <4>1 DEF upto
      <4>3. QED BY <2>2, <2>4, <2>5, <4>2
    <3>3. QED BY <3>1, <3>2
  <2>7. PICK b : b = [start |-> begin, count |-> end - begin, done |-> texts[begin] # NoText]
    OBVIOUS
  <2>8. b \in BatchesFrom(begins, texts)
    BY <2>3, <2>4, <2>7 DEF BatchesFrom
  <2>9. s \in Span(b)
    <3>1. b.start = begin /\ b.count = end - begin
      BY <2>7
    <3>2. s \in begin..(begin + (end - begin) - 1)
      BY <2>4, <2>5, <2>6
    <3>3. QED BY <3>1, <3>2 DEF Span
  <2>10. QED BY <2>8, <2>9
<1>4. QED BY <1>1, <1>2, <1>3

\* Translated paragraphs begin and end with the batches of a budget.
Budgeted(texts, size) ==
    \A s \in DOMAIN texts :
        (s - 1) \in DOMAIN texts /\ (s - 1) % size # 0 => (texts[s] # NoText <=> texts[s - 1] # NoText)
BudgetBegins(texts, size) == {s \in DOMAIN texts : (s - 1) % size = 0}
ResumeBegins(texts, size) ==
    {s \in DOMAIN texts : (s - 1) % size = 0 \/ (texts[s] # NoText) # (texts[s - 1] # NoText)}

LEMMA ResumedBatches ==
    ASSUME NEW texts \in Seq(Nat), NEW size \in Nat \ {0}
    PROVE  /\ ResumeBatches(texts, size) = BatchesFrom(ResumeBegins(texts, size), texts)
           /\ AreBeginnings(ResumeBegins(texts, size), Len(texts))
           /\ \A b \in ResumeBatches(texts, size) : \A s \in Span(b) :
                 s \in 1..Len(texts) /\ (texts[s] # NoText <=> b.done)
<1>0. Len(texts) \in Nat /\ DOMAIN texts = 1..Len(texts)
  BY LenProperties
<1>1. ResumeBatches(texts, size) = BatchesFrom(ResumeBegins(texts, size), texts)
  BY DEF ResumeBatches, ResumeBegins
<1>2. AreBeginnings(ResumeBegins(texts, size), Len(texts))
  <2>1. 0 % size = 0
    OBVIOUS
  <2>2. Len(texts) > 0 => 1 \in DOMAIN texts /\ (1 - 1) % size = 0
    BY <1>0, <2>1
  <2>3. QED BY <1>0, <2>2 DEF AreBeginnings, ResumeBegins
<1>3. ASSUME NEW b \in ResumeBatches(texts, size), NEW s \in Span(b)
      PROVE  s \in 1..Len(texts) /\ (texts[s] # NoText <=> b.done)
  <2> DEFINE begins == ResumeBegins(texts, size)
             unlike == {n \in Span(b) : (texts[n] # NoText) # b.done}
  <2> HIDE DEF begins
  <2>1. /\ b.start \in begins /\ b.start \in 1..Len(texts)
        /\ b.count \in Nat \ {0} /\ b.start + b.count - 1 <= Len(texts)
        /\ b.done \in BOOLEAN /\ (b.done <=> texts[b.start] # NoText)
        /\ b.start + b.count = EndAmong(begins, texts, b.start)
    BY <1>1, <1>2, BatchesCover DEF begins
  <2>2. \A n \in Span(b) : n \in 1..Len(texts) /\ n >= b.start /\ n < b.start + b.count
    BY <1>0, <2>1 DEF Span
  <2>3. unlike = {}
    <3>1. SUFFICES ASSUME unlike # {} PROVE FALSE
      OBVIOUS
    <3>2. unlike \in SUBSET Nat
      BY <2>2
    <3>3. PICK n \in unlike : \A m \in unlike : n <= m
      BY <3>1, <3>2, SmallestNumber
    <3>4. n \in Span(b) /\ (texts[n] # NoText) # b.done /\ n \in 1..Len(texts)
      BY <2>2
    <3>5. n # b.start
      BY <2>1, <3>4
    <3>6. n - 1 \in Span(b) /\ n > b.start
      <4>1. PICK first, count : first = b.start /\ count = b.count
        OBVIOUS
      <4>2. first \in Nat /\ count \in Nat /\ n \in Nat /\ n >= first /\ n < first + count /\ n # first
        BY <1>0, <2>1, <2>2, <3>4, <3>5, <4>1
      <4>3. n - 1 \in first..(first + count - 1) /\ n > first
        BY <4>2
      <4>4. QED BY <4>1, <4>3 DEF Span
    <3>7. n - 1 \notin unlike
      BY <1>0, <3>3, <3>4
    <3>8. (texts[n - 1] # NoText) = b.done
      BY <2>1, <3>6, <3>7
    <3>9. n \in begins
      BY <1>0, <3>4, <3>8 DEF begins, ResumeBegins
    <3>10. b.start + b.count <= n
      BY <1>2, <2>1, <3>6, <3>9, EndIsNext DEF begins
    <3>11. QED BY <1>0, <2>1, <2>2, <3>4, <3>10
  <2>4. (texts[s] # NoText) = b.done
    BY <2>1, <2>3
  <2>5. QED BY <2>2, <2>4
<1>4. QED BY <1>1, <1>2, <1>3

\* Where translated text begins and ends with the batches of a budget, so do the batches.
LEMMA ResumedBudget ==
    ASSUME NEW texts \in Seq(Nat), NEW size \in Nat \ {0}, Budgeted(texts, size)
    PROVE  \A b \in ResumeBatches(texts, size) :
              /\ b.start \in BudgetBegins(texts, size)
              /\ b.start + b.count = EndAmong(BudgetBegins(texts, size), texts, b.start)
<1>1. ResumeBegins(texts, size) = BudgetBegins(texts, size)
  <2>1. ASSUME NEW s \in DOMAIN texts, (s - 1) % size # 0
        PROVE  (s - 1) \in DOMAIN texts
    <3>1. Len(texts) \in Nat /\ DOMAIN texts = 1..Len(texts)
      BY LenProperties
    <3>2. 0 % size = 0
      OBVIOUS
    <3>3. s # 1
      BY <2>1, <3>2
    <3>4. QED BY <3>1, <3>3
  <2>2. QED BY <2>1 DEF ResumeBegins, BudgetBegins, Budgeted
<1>2. QED BY <1>1, ResumedBatches, BatchesCover

-----------------------------------------------------------------------------
(* TranslationBatches: the invocation                                      *)

BookPcs == {"idle", "chapter", "open", "batch", "request", "save", "reuse", "drafts",
            "synthesis", "synthesizing", "result", "publish", "merge", "mark",
            "align", "extract", "event", "terms", "close", "closing"}

\* The fields of an invocation.
IsWork(w) ==
    w = [pc |-> w.pc, mode |-> w.mode, size |-> w.size, whole |-> w.whole, todo |-> w.todo,
         copy |-> w.copy, batches |-> w.batches, keys |-> w.keys, snapshot |-> w.snapshot,
         stale |-> w.stale, plan |-> w.plan, text |-> w.text]
BookWorkInv ==
    /\ bookWork.pc \in BookPcs
    /\ Working => /\ IsWork(bookWork)
                  /\ bookWork.mode \in {"standard", "best_of_three"} /\ bookWork.size \in Nat \ {0}
                  /\ bookWork.whole \in BOOLEAN /\ bookWork.stale \in BOOLEAN
                  /\ bookWork.todo \subseteq 1..Chapters
                  /\ bookWork.pc # "chapter" => bookWork.todo # {}


\* What a step leaves of the invocation.
KeepsRun == /\ bookWork'.mode = bookWork.mode /\ bookWork'.size = bookWork.size
            /\ bookWork'.whole = bookWork.whole
KeepsChapter == KeepsRun /\ bookWork'.todo = bookWork.todo
KeepsCopy == bookWork'.copy = bookWork.copy
KeepsBatches == bookWork'.batches = bookWork.batches /\ bookWork'.keys = bookWork.keys
KeepsTerms == bookWork'.snapshot = bookWork.snapshot /\ bookWork'.stale = bookWork.stale
KeepsPlan == bookWork'.plan = bookWork.plan
WorkGoes(pc) == IsWork(bookWork') /\ bookWork'.pc = pc

\* A step that only goes on to another point.
GoesOnTo(pc) == /\ WorkGoes(pc) /\ KeepsChapter /\ KeepsCopy /\ KeepsBatches /\ KeepsTerms /\ KeepsPlan
                /\ bookWork'.text = bookWork.text

LEMMA WorkGoesOn ==
    ASSUME IsWork(bookWork), NEW pc, Work(pc)
    PROVE  GoesOnTo(pc)
BY DEF IsWork, Work, GoesOnTo, WorkGoes, KeepsRun, KeepsChapter, KeepsCopy, KeepsBatches,
   KeepsTerms, KeepsPlan

LEMMA WorkMoves ==
    ASSUME BookWorkInv
    PROVE  /\ SkipBatch \/ SaveBatch => GoesOnTo("align")
           /\ WriteResult => GoesOnTo("publish")
           /\ PreparePublication => GoesOnTo("merge")
           /\ MarkPublished => GoesOnTo("align")
           /\ ExtractTerms => GoesOnTo("event")
           /\ ExtractChapter => GoesOnTo("close")
BY WorkGoesOn DEF BookWorkInv, Working, SkipBatch, SaveBatch, WriteResult, PreparePublication,
   MarkPublished,
   ExtractTerms, ExtractChapter

\* StartBook: a fresh invocation.
LEMMA StartsWork ==
    ASSUME NEW settings \in Settings, StartBook(settings)
    PROVE  /\ WorkGoes("chapter") /\ bookWork'.mode = settings.mode /\ bookWork'.size = settings.size
           /\ bookWork'.whole = (settings.only = 0) /\ bookWork'.todo # {}
           /\ bookWork'.todo = IF settings.only = 0 THEN Pending ELSE {settings.only}
           /\ bookWork'.stale = FALSE
BY DEF StartBook, IsWork, WorkGoes

\* OpenChapter: an empty chapter is done, another one is cut into batches.
LEMMA OpensWork ==
    ASSUME BookWorkInv, OpenChapter
    PROVE  /\ Length[Chapter] = 0 => WorkGoes("chapter") /\ KeepsRun /\ bookWork'.todo = bookWork.todo \ {Chapter}
                                     /\ bookWork'.stale = bookWork.stale
           /\ Length[Chapter] # 0 =>
                /\ WorkGoes("batch") /\ KeepsChapter /\ KeepsPlan /\ bookWork'.copy = bookText[Chapter]
                /\ bookWork'.batches = ResumeBatches(bookText[Chapter], bookWork.size)
                /\ bookWork'.keys = {k \in bookKeys : k[1] = Chapter}
                /\ bookWork'.snapshot = bookTerms /\ bookWork'.stale = FALSE
BY DEF BookWorkInv, Working, OpenChapter, NextChapter, IsWork, WorkGoes, KeepsRun, KeepsChapter, KeepsPlan

LEMMA PlansWork ==
    ASSUME BookWorkInv, PlanBatch
    PROVE  /\ WorkGoes(IF bookWork.mode = "standard" THEN "request" ELSE "reuse")
           /\ KeepsChapter /\ KeepsCopy /\ KeepsBatches
           /\ bookWork'.snapshot = (IF bookWork.stale THEN bookTerms ELSE bookWork.snapshot)
           /\ bookWork'.stale = FALSE
           /\ bookWork'.plan = CapturePlan(bookWork'.snapshot)
<1>1. PICK terms : terms = IF bookWork.stale THEN bookTerms ELSE bookWork.snapshot
  OBVIOUS
<1>2. PICK plan : plan = CapturePlan(terms)
  OBVIOUS
<1>3. bookWork' = [bookWork EXCEPT !.pc = IF bookWork.mode = "standard" THEN "request" ELSE "reuse",
                                   !.snapshot = terms, !.stale = FALSE, !.plan = plan]
  BY <1>1, <1>2 DEF PlanBatch
<1>4. IsWork(bookWork)
  BY DEF BookWorkInv, Working, PlanBatch
<1>5. /\ IsWork(bookWork') /\ bookWork'.pc = (IF bookWork.mode = "standard" THEN "request" ELSE "reuse")
      /\ bookWork'.snapshot = terms /\ bookWork'.stale = FALSE /\ bookWork'.plan = plan
      /\ KeepsChapter /\ KeepsCopy /\ KeepsBatches
  BY <1>3, <1>4 DEF IsWork, KeepsRun, KeepsChapter, KeepsCopy, KeepsBatches
<1>6. QED BY <1>1, <1>2, <1>5 DEF WorkGoes

LEMMA TranslatesWork ==
    ASSUME BookWorkInv, TranslateBatch
    PROVE  /\ WorkGoes("save") /\ KeepsChapter /\ KeepsBatches /\ KeepsTerms /\ KeepsPlan
           /\ bookWork'.copy = Filled(bookWork.copy, bookWork.plan, bookDraws + 2)
<1>1. PICK copy : copy = Filled(bookWork.copy, bookWork.plan, bookDraws + 2)
  OBVIOUS
<1>2. IsWork(bookWork) /\ bookWork' = [bookWork EXCEPT !.pc = "save", !.copy = copy]
  BY <1>1 DEF BookWorkInv, Working, TranslateBatch
<1>3. QED
  BY <1>1, <1>2 DEF IsWork, WorkGoes, KeepsRun, KeepsChapter, KeepsBatches, KeepsTerms, KeepsPlan

\* The steps of the precision mode: a text is found or drawn, merged, or the invocation ends.
LEMMA PrecisionWork ==
    ASSUME BookWorkInv
    PROVE  /\ ReuseResults =>
                /\ KeepsChapter /\ KeepsCopy /\ KeepsBatches /\ KeepsTerms /\ KeepsPlan
                /\ \/ /\ WorkGoes("publish") /\ UNCHANGED bookDrafts
                      /\ \E r \in bookResults : r.plan = bookWork.plan /\ bookWork'.text = r.text
                   \/ /\ WorkGoes("drafts") /\ \A r \in bookResults : r.plan # bookWork.plan
           /\ DraftsEnd => bookWork' = IdleWork \/ GoesOnTo("synthesis")
           /\ RecoverSynthesis =>
                /\ KeepsChapter /\ KeepsCopy /\ KeepsBatches /\ KeepsTerms /\ KeepsPlan
                /\ \/ WorkGoes("synthesizing") /\ Receipts("synthesis") = {}
                   \/ WorkGoes("result") /\ \E r \in Receipts("synthesis") : bookWork'.text = r.text
           /\ SynthesisAnswers =>
                /\ KeepsChapter /\ KeepsCopy /\ KeepsBatches /\ KeepsTerms /\ KeepsPlan
                /\ WorkGoes("result") /\ bookWork'.text = bookDraws + 2
           /\ MergeBatch =>
                \/ bookWork' = IdleWork /\ UNCHANGED bookText
                \/ /\ KeepsChapter /\ KeepsBatches /\ KeepsTerms /\ KeepsPlan /\ WorkGoes("mark")
                   /\ bookWork'.text = bookWork.text
                   /\ bookWork'.copy = Filled(bookText[Chapter], bookWork.plan, bookWork.text)
                   /\ bookText' = [bookText EXCEPT ![Chapter] =
                                     Filled(bookText[Chapter], bookWork.plan, bookWork.text)]
<1> USE DEF KeepsRun, KeepsChapter, KeepsCopy, KeepsBatches, KeepsTerms, KeepsPlan, WorkGoes
<1>1. ASSUME ReuseResults
      PROVE  /\ KeepsChapter /\ KeepsCopy /\ KeepsBatches /\ KeepsTerms /\ KeepsPlan
             /\ \/ /\ WorkGoes("publish") /\ UNCHANGED bookDrafts
                   /\ \E r \in bookResults : r.plan = bookWork.plan /\ bookWork'.text = r.text
                \/ /\ WorkGoes("drafts") /\ \A r \in bookResults : r.plan # bookWork.plan
  <2>1. IsWork(bookWork)
    BY <1>1 DEF BookWorkInv, Working, ReuseResults
  <2>2. PICK saved : saved = {r \in bookResults : r.plan = bookWork.plan}
    OBVIOUS
  <2>3. CASE saved # {}
    <3>1. PICK r : r = CHOOSE x \in saved : TRUE
      OBVIOUS
    <3>2. r \in saved /\ UNCHANGED bookDrafts /\ bookWork' = [bookWork EXCEPT !.pc = "publish", !.text = r.text]
      BY <1>1, <2>2, <2>3, <3>1 DEF ReuseResults
    <3>3. QED BY <2>1, <2>2, <3>2 DEF IsWork
  <2>4. CASE saved = {}
    <3>1. Work("drafts")
      BY <1>1, <2>2, <2>4 DEF ReuseResults
    <3>2. QED BY <2>1, <2>2, <2>4, <3>1, WorkGoesOn DEF GoesOnTo
  <2>5. QED BY <2>3, <2>4
<1>2. DraftsEnd => bookWork' = IdleWork \/ GoesOnTo("synthesis")
  BY WorkGoesOn DEF BookWorkInv, Working, DraftsEnd
<1>3. ASSUME RecoverSynthesis
      PROVE  /\ KeepsChapter /\ KeepsCopy /\ KeepsBatches /\ KeepsTerms /\ KeepsPlan
             /\ \/ WorkGoes("synthesizing") /\ Receipts("synthesis") = {}
                \/ WorkGoes("result") /\ \E r \in Receipts("synthesis") : bookWork'.text = r.text
  <2>1. IsWork(bookWork)
    BY <1>3 DEF BookWorkInv, Working, RecoverSynthesis
  <2>2. CASE Receipts("synthesis") = {}
    <3>1. bookWork' = [bookWork EXCEPT !.pc = "synthesizing"]
      BY <1>3, <2>2 DEF RecoverSynthesis
    <3>2. QED BY <2>1, <2>2, <3>1 DEF IsWork
  <2>3. CASE Receipts("synthesis") # {}
    <3>1. PICK r : r = CHOOSE x \in Receipts("synthesis") : TRUE
      OBVIOUS
    <3>2. r \in Receipts("synthesis") /\ bookWork' = [bookWork EXCEPT !.pc = "result", !.text = r.text]
      BY <1>3, <2>3, <3>1 DEF RecoverSynthesis
    <3>3. QED BY <2>1, <3>2 DEF IsWork
  <2>4. QED BY <2>2, <2>3
<1>4. SynthesisAnswers =>
        /\ KeepsChapter /\ KeepsCopy /\ KeepsBatches /\ KeepsTerms /\ KeepsPlan
        /\ WorkGoes("result") /\ bookWork'.text = bookDraws + 2
  BY DEF BookWorkInv, Working, SynthesisAnswers, IsWork
<1>5. ASSUME MergeBatch
      PROVE  \/ bookWork' = IdleWork /\ UNCHANGED bookText
             \/ /\ KeepsChapter /\ KeepsBatches /\ KeepsTerms /\ KeepsPlan /\ WorkGoes("mark")
                /\ bookWork'.text = bookWork.text
                /\ bookWork'.copy = Filled(bookText[Chapter], bookWork.plan, bookWork.text)
                /\ bookText' = [bookText EXCEPT ![Chapter] =
                                  Filled(bookText[Chapter], bookWork.plan, bookWork.text)]
  <2>1. IsWork(bookWork)
    BY <1>5 DEF BookWorkInv, Working, MergeBatch
  <2>2. PICK merged : merged = Filled(bookText[Chapter], bookWork.plan, bookWork.text)
    OBVIOUS
  <2>3. \/ bookWork' = IdleWork /\ UNCHANGED bookText
        \/ /\ bookText' = [bookText EXCEPT ![Chapter] = merged]
           /\ bookWork' = [bookWork EXCEPT !.pc = "mark", !.copy = merged]
    BY <1>5, <2>2 DEF MergeBatch
  <2>4. QED BY <2>1, <2>2, <2>3 DEF IsWork
<1> HIDE DEF KeepsRun, KeepsChapter, KeepsCopy, KeepsBatches, KeepsTerms, KeepsPlan, WorkGoes
<1>6. QED BY <1>1, <1>2, <1>3, <1>4, <1>5

\* After a batch: the next one, or its terms; after a chapter, the next one.
LEMMA BatchEndsWork ==
    ASSUME BookWorkInv
    PROVE  /\ AlignBatch =>
                /\ KeepsChapter /\ KeepsCopy /\ KeepsTerms /\ bookWork'.keys = bookWork.keys
                /\ \/ /\ Batch.done /\ Key \in bookWork.keys /\ WorkGoes("batch")
                      /\ bookWork'.batches = bookWork.batches \ {Batch}
                   \/ WorkGoes("extract") /\ KeepsBatches
           /\ LogExtraction =>
                /\ WorkGoes("batch") /\ KeepsChapter /\ KeepsCopy
                /\ bookWork'.batches = bookWork.batches \ {Batch}
                /\ bookWork'.keys = bookWork.keys \cup {Key} /\ bookWork'.stale = TRUE
           /\ CloseChapter =>
                \/ bookWork.pc = "close" /\ GoesOnTo("closing")
                \/ /\ bookWork.pc = "closing" /\ WorkGoes("chapter") /\ KeepsRun
                   /\ bookWork'.todo = bookWork.todo \ {Chapter} /\ bookWork'.stale = bookWork.stale
<1> USE DEF KeepsRun, KeepsChapter, KeepsCopy, KeepsBatches, KeepsTerms, KeepsPlan, WorkGoes
<1>1. ASSUME AlignBatch
      PROVE  /\ KeepsChapter /\ KeepsCopy /\ KeepsTerms /\ bookWork'.keys = bookWork.keys
             /\ \/ /\ Batch.done /\ Key \in bookWork.keys /\ WorkGoes("batch")
                   /\ bookWork'.batches = bookWork.batches \ {Batch}
                \/ WorkGoes("extract") /\ KeepsBatches
  <2>1. IsWork(bookWork)
    BY <1>1 DEF BookWorkInv, Working, AlignBatch
  <2>2. PICK rest : rest = bookWork.batches \ {Batch}
    OBVIOUS
  <2>3. \/ Batch.done /\ Key \in bookWork.keys /\ bookWork' = [bookWork EXCEPT !.pc = "batch", !.batches = rest]
        \/ bookWork' = [bookWork EXCEPT !.pc = "extract"]
    BY <1>1, <2>2 DEF AlignBatch, NextBatch
  <2>4. QED BY <2>1, <2>2, <2>3 DEF IsWork
<1>2. ASSUME LogExtraction
      PROVE  /\ WorkGoes("batch") /\ KeepsChapter /\ KeepsCopy
             /\ bookWork'.batches = bookWork.batches \ {Batch}
             /\ bookWork'.keys = bookWork.keys \cup {Key} /\ bookWork'.stale = TRUE
  <2>1. IsWork(bookWork)
    BY <1>2 DEF BookWorkInv, Working, LogExtraction
  <2>2. PICK next : next = NextBatch
    OBVIOUS
  <2>3. /\ IsWork(next) /\ next.pc = "batch" /\ next.mode = bookWork.mode /\ next.size = bookWork.size
        /\ next.whole = bookWork.whole /\ next.todo = bookWork.todo /\ next.copy = bookWork.copy
        /\ next.keys = bookWork.keys /\ next.batches = bookWork.batches \ {Batch}
    BY <2>1, <2>2 DEF NextBatch, IsWork
  <2>4. bookWork' = [next EXCEPT !.keys = @ \cup {Key}, !.stale = TRUE]
    BY <1>2, <2>2 DEF LogExtraction
  <2>5. QED BY <2>3, <2>4 DEF IsWork
<1>3. ASSUME CloseChapter
      PROVE  \/ bookWork.pc = "close" /\ GoesOnTo("closing")
             \/ /\ bookWork.pc = "closing" /\ WorkGoes("chapter") /\ KeepsRun
                /\ bookWork'.todo = bookWork.todo \ {Chapter} /\ bookWork'.stale = bookWork.stale
  <2>1. CASE bookWork.pc = "close" /\ Work("closing")
    BY <2>1, WorkGoesOn DEF BookWorkInv, Working
  <2>2. CASE bookWork.pc = "closing" /\ bookWork' = NextChapter("chapter")
    BY <2>2 DEF BookWorkInv, Working, NextChapter, IsWork
  <2>3. QED BY <1>3, <2>1, <2>2 DEF CloseChapter
<1> HIDE DEF KeepsRun, KeepsChapter, KeepsCopy, KeepsBatches, KeepsTerms, KeepsPlan, WorkGoes
<1>4. QED BY <1>1, <1>2, <1>3

LEMMA WorkIsOver ==
    ASSUME EndBook \/ InvocationFails
    PROVE  bookWork' = IdleWork
BY DEF EndBook, InvocationFails


\* The steps outside the precision mode, and those within.
OrdinaryStep ==
    \/ \E settings \in Settings : StartBook(settings)
    \/ OpenChapter \/ SkipBatch \/ PlanBatch \/ TranslateBatch \/ SaveBatch
    \/ AlignBatch \/ ExtractTerms \/ LogExtraction \/ ExtractChapter \/ CloseChapter \/ EndBook
    \/ \E c \in 1..Chapters : \E s \in Segments(c) : EditSegment(c, s)
InPrecision(pc) ==
    pc \in {"drafts", "synthesis", "synthesizing", "result", "publish", "merge", "mark"}

LEMMA BookSteps ==
    ASSUME [BookNext]_bookVars
    PROVE  \/ UNCHANGED bookVars \/ OrdinaryStep
           \/ \E d \in DraftIds : DraftAnswers(d) \/ DraftFails(d) \/ BindDraft(d)
           \/ ReuseResults \/ DraftsEnd \/ RecoverSynthesis \/ SynthesisAnswers \/ WriteResult
           \/ PreparePublication \/ MergeBatch \/ MarkPublished \/ InvocationFails
BY DEF BookNext, BookStep, PrecisionStep, OrdinaryStep

LEMMA OrdinarySteps ==
    ASSUME BookWorkInv, OrdinaryStep
    PROVE  /\ UNCHANGED <<bookCalls, bookBound, bookResults, bookDrafts, bookFailures>>
           /\ OpenChapter \/ UNCHANGED bookPublications
           /\ ~InPrecision(bookWork.pc) /\ ~InPrecision(bookWork'.pc)
           /\ bookWork.pc # "reuse" /\ (TranslateBatch \/ UNCHANGED bookDraws)
<1> USE DEF bookPrecision, bookFormal, bookGlossary, bookGhosts, InPrecision
<1>1. CASE \E settings \in Settings : StartBook(settings)
  <2>1. PICK settings \in Settings : StartBook(settings)
    BY <1>1
  <2>2. bookWork.pc = "idle" /\ bookWork'.pc = "chapter"
    BY <2>1, StartsWork DEF StartBook, Working, WorkGoes
  <2>3. UNCHANGED <<bookPrecision, bookDrafts, bookFailures, bookDraws>>
    BY <2>1 DEF StartBook
  <2>4. QED BY <2>2, <2>3
<1>2. CASE OpenChapter
  <2>1. bookWork.pc = "chapter" /\ bookWork'.pc \in {"chapter", "batch"}
    BY <1>2, OpensWork DEF OpenChapter, WorkGoes
  <2>2. QED BY <1>2, <2>1 DEF OpenChapter
<1>3. CASE SkipBatch
  BY <1>3, WorkMoves DEF SkipBatch, GoesOnTo, WorkGoes
<1>4. CASE PlanBatch
  BY <1>4, PlansWork DEF PlanBatch, WorkGoes
<1>5. CASE TranslateBatch
  BY <1>5, TranslatesWork DEF TranslateBatch, WorkGoes
<1>6. CASE SaveBatch
  BY <1>6, WorkMoves DEF SaveBatch, GoesOnTo, WorkGoes
<1>7. CASE AlignBatch
  BY <1>7, BatchEndsWork DEF AlignBatch, WorkGoes
<1>8. CASE ExtractTerms
  BY <1>8, WorkMoves DEF ExtractTerms, GoesOnTo, WorkGoes
<1>9. CASE LogExtraction
  BY <1>9, BatchEndsWork DEF LogExtraction, WorkGoes
<1>10. CASE ExtractChapter
  BY <1>10, WorkMoves DEF ExtractChapter, GoesOnTo, WorkGoes
<1>11. CASE CloseChapter
  BY <1>11, BatchEndsWork DEF CloseChapter, GoesOnTo, WorkGoes
<1>12. CASE EndBook
  BY <1>12 DEF EndBook, IdleWork
<1>13. CASE \E c \in 1..Chapters : \E s \in Segments(c) : EditSegment(c, s)
  BY <1>13 DEF EditSegment, Working
<1>14. QED
  BY <1>1, <1>2, <1>3, <1>4, <1>5, <1>6, <1>7, <1>8, <1>9, <1>10, <1>11, <1>12, <1>13 DEF OrdinaryStep

-----------------------------------------------------------------------------
(* TranslationBatches: the chapters an invocation has left                 *)

LEMMA ChapterIsLeast ==
    ASSUME BookWorkInv, Working, bookWork.todo # {}
    PROVE  /\ Chapter \in bookWork.todo /\ Chapter \in 1..Chapters
           /\ \A c \in bookWork.todo : Chapter <= c
<1>1. bookWork.todo \in SUBSET (1..Chapters)
  BY DEF BookWorkInv
<1>2. bookWork.todo \in SUBSET Nat
  BY <1>1, BookAssumption
<1>3. QED BY <1>1, <1>2, MinIsLeast DEF Chapter

LEMMA WorkStep ==
    ASSUME BookWorkInv, [BookNext]_bookVars
    PROVE  BookWorkInv'
<1> USE DEF BookPcs, WorkGoes, GoesOnTo, KeepsChapter, KeepsRun, KeepsTerms
<1>1. CASE UNCHANGED bookVars
  BY <1>1 DEF bookVars, BookWorkInv, Working, IsWork
<1>2. CASE bookWork' = IdleWork
  BY <1>2 DEF IdleWork, BookWorkInv, Working
<1>3. CASE UNCHANGED bookWork
  BY <1>3 DEF BookWorkInv, Working, IsWork
<1>4. CASE \E settings \in Settings : StartBook(settings)
  <2>1. PICK settings \in Settings : StartBook(settings)
    BY <1>4
  <2>2. /\ settings.mode \in {"standard", "best_of_three"} /\ settings.size \in Nat \ {0}
        /\ settings.only \in 0..Chapters
    BY BookAssumption
  <2>3. /\ WorkGoes("chapter") /\ bookWork'.mode = settings.mode /\ bookWork'.size = settings.size
        /\ bookWork'.whole = (settings.only = 0) /\ bookWork'.stale = FALSE
        /\ bookWork'.todo = IF settings.only = 0 THEN Pending ELSE {settings.only}
    BY <2>1, StartsWork
  <2>4. bookWork'.todo \subseteq 1..Chapters
    BY <2>2, <2>3, BookAssumption DEF Pending
  <2>5. QED BY <2>2, <2>3, <2>4 DEF BookWorkInv, Working
<1>5. CASE OpenChapter
  BY <1>5, OpensWork DEF OpenChapter, BookWorkInv, Working
<1>6. CASE PlanBatch
  BY <1>6, PlansWork DEF PlanBatch, BookWorkInv, Working
<1>7. CASE TranslateBatch
  BY <1>7, TranslatesWork DEF TranslateBatch, BookWorkInv, Working
<1>8. CASE SkipBatch \/ SaveBatch \/ WriteResult \/ PreparePublication \/ MarkPublished \/ ExtractTerms
           \/ ExtractChapter
  BY <1>8, WorkMoves DEF BookWorkInv, Working, SkipBatch, SaveBatch, WriteResult, PreparePublication,
     MarkPublished, ExtractTerms, ExtractChapter
<1>9. CASE ReuseResults \/ RecoverSynthesis \/ SynthesisAnswers
  <2>1. /\ KeepsChapter /\ KeepsTerms
        /\ WorkGoes("publish") \/ WorkGoes("drafts") \/ WorkGoes("synthesizing") \/ WorkGoes("result")
    BY <1>9, PrecisionWork
  <2>2. QED BY <1>9, <2>1 DEF BookWorkInv, Working, ReuseResults, RecoverSynthesis, SynthesisAnswers
<1>10. CASE DraftsEnd
  BY <1>2, <1>10, PrecisionWork DEF BookWorkInv, Working, DraftsEnd
<1>11. CASE MergeBatch
  <2>1. CASE KeepsChapter /\ KeepsTerms /\ WorkGoes("mark")
    BY <1>11, <2>1 DEF BookWorkInv, Working, MergeBatch
  <2>2. QED BY <1>2, <1>11, <2>1, PrecisionWork
<1>12. CASE AlignBatch
  BY <1>12, BatchEndsWork DEF BookWorkInv, Working, AlignBatch
<1>13. CASE LogExtraction
  BY <1>13, BatchEndsWork DEF BookWorkInv, Working, LogExtraction
<1>14. CASE CloseChapter
  BY <1>14, BatchEndsWork DEF BookWorkInv, Working
<1>15. CASE EndBook \/ InvocationFails
  BY <1>2, <1>15, WorkIsOver
<1>16. CASE \E d \in DraftIds : DraftAnswers(d) \/ DraftFails(d) \/ BindDraft(d)
  BY <1>3, <1>16 DEF DraftAnswers, DraftFails, BindDraft
<1>17. CASE \E c \in 1..Chapters : \E s \in Segments(c) : EditSegment(c, s)
  BY <1>3, <1>17 DEF EditSegment
<1>18. QED
  BY <1>1, <1>4, <1>5, <1>6, <1>7, <1>8, <1>9, <1>10, <1>11, <1>12, <1>13, <1>14, <1>15, <1>16, <1>17
  DEF BookNext, BookStep, PrecisionStep


-----------------------------------------------------------------------------
(* TranslationBatches: receipts, results and publications                  *)

\* A draft that is called has no receipt yet, and drafts are called in their time only.
DraftsInv ==
    /\ bookDrafts \in [DraftIds -> {"idle", "recovered", "calling", "received", "bound", "failed"}]
    /\ bookWork.pc # "drafts" => bookDrafts = IdleDrafts
    /\ \A d \in DraftIds : bookDrafts[d] = "calling" => Receipts(d) = {}
    /\ bookWork.pc = "synthesizing" => Receipts("synthesis") = {}

LEMMA DraftsStep ==
    ASSUME BookWorkInv, DraftsInv, [BookNext]_bookVars
    PROVE  DraftsInv'
<1> USE DEF DraftsInv
<1>0. IdleDrafts \in [DraftIds -> {"idle", "recovered", "calling", "received", "bound", "failed"}]
      /\ \A d \in DraftIds : IdleDrafts[d] # "calling"
  BY DEF IdleDrafts
<1>1. CASE UNCHANGED bookVars
  BY <1>1 DEF bookVars, bookPrecision, Receipts
<1>2. CASE OrdinaryStep
  BY <1>0, <1>2, OrdinarySteps DEF InPrecision
<1>3. CASE ReuseResults
  <2>1. CASE WorkGoes("publish") /\ UNCHANGED bookDrafts
    BY <1>0, <1>3, <2>1 DEF ReuseResults, WorkGoes
  <2>2. CASE WorkGoes("drafts") /\ KeepsPlan /\ \A r \in bookResults : r.plan # bookWork.plan
    <3>1. bookDrafts' = [d \in DraftIds |-> IF IsBound(d) THEN "bound"
                            ELSE IF Receipts(d) # {} THEN "recovered" ELSE "calling"]
      BY <1>3, <2>2 DEF ReuseResults
    <3>2. \A d \in DraftIds : Receipts(d)' = Receipts(d)
      BY <1>3, <2>2 DEF ReuseResults, bookPrecision, KeepsPlan, Receipts
    <3>3. QED BY <2>2, <3>1, <3>2 DEF WorkGoes
  <2>3. QED BY <1>3, <2>1, <2>2, PrecisionWork
<1>4. ASSUME NEW d \in DraftIds, DraftAnswers(d) PROVE DraftsInv'
  <2>1. /\ bookWork' = bookWork /\ bookWork.pc = "drafts"
        /\ bookDrafts' = [bookDrafts EXCEPT ![d] = "received"]
        /\ bookCalls' = bookCalls \cup {[plan |-> bookWork.plan, stage |-> d, text |-> NoText]}
    BY <1>4 DEF DraftAnswers
  <2>2. \A e \in DraftIds \ {d} : Receipts(e)' = Receipts(e)
    BY <2>1 DEF Receipts
  <2>3. QED BY <2>1, <2>2
<1>5. ASSUME NEW d \in DraftIds, DraftFails(d) \/ BindDraft(d) PROVE DraftsInv'
  <2>1. /\ bookWork' = bookWork /\ bookWork.pc = "drafts" /\ UNCHANGED bookCalls
        /\ \E to \in {"failed", "bound"} : bookDrafts' = [bookDrafts EXCEPT ![d] = to]
    BY <1>5 DEF DraftFails, BindDraft, bookPrecision
  <2>2. \A e \in DraftIds : Receipts(e)' = Receipts(e)
    BY <2>1 DEF Receipts
  <2>3. QED BY <2>1, <2>2
<1>6. CASE DraftsEnd
  <2>1. bookDrafts' = IdleDrafts /\ bookWork'.pc \in {"idle", "synthesis"}
    BY <1>6, PrecisionWork DEF DraftsEnd, GoesOnTo, WorkGoes, IdleWork
  <2>2. QED BY <1>0, <2>1
<1>7. CASE RecoverSynthesis
  <2>1. UNCHANGED <<bookDrafts, bookCalls>> /\ bookWork.pc = "synthesis"
    BY <1>7 DEF RecoverSynthesis, bookPrecision
  <2>2. /\ bookWork'.plan = bookWork.plan
        /\ \/ bookWork'.pc = "synthesizing" /\ Receipts("synthesis") = {}
           \/ bookWork'.pc = "result"
    BY <1>7, PrecisionWork DEF KeepsPlan, WorkGoes
  <2>3. Receipts("synthesis")' = Receipts("synthesis")
    BY <2>1, <2>2 DEF Receipts
  <2>4. QED BY <1>0, <2>1, <2>2, <2>3
<1>8. CASE SynthesisAnswers \/ WriteResult \/ PreparePublication \/ MarkPublished
  <2>1. UNCHANGED bookDrafts /\ bookWork.pc # "drafts"
    BY <1>8 DEF SynthesisAnswers, WriteResult, PreparePublication, MarkPublished
  <2>2. bookWork'.pc \in {"result", "publish", "merge", "align"}
    BY <1>8, PrecisionWork, WorkMoves DEF GoesOnTo, WorkGoes
  <2>3. QED BY <1>0, <2>1, <2>2
<1>9. CASE MergeBatch
  <2>1. UNCHANGED bookDrafts /\ bookWork.pc = "merge" /\ bookWork'.pc \in {"idle", "mark"}
    BY <1>9, PrecisionWork DEF MergeBatch, WorkGoes, IdleWork
  <2>2. QED BY <1>0, <2>1
<1>10. CASE InvocationFails
  BY <1>0, <1>10 DEF InvocationFails, IdleWork
<1>11. QED
  BY <1>1, <1>2, <1>3, <1>4, <1>5, <1>6, <1>7, <1>8, <1>9, <1>10, BookSteps

\* The receipts of a plan: one of each stage, and no text twice.
IsReceipt(r) ==
    /\ r = [plan |-> r.plan, stage |-> r.stage, text |-> r.text] /\ r.stage \in Stages
    /\ r.stage # "synthesis" => r.text = NoText
    /\ r.stage = "synthesis" => r.text \in 2..(bookDraws + 1)
ReceiptsInv ==
    /\ bookDraws \in Nat
    /\ \A r \in bookCalls : IsReceipt(r)
    /\ \A r, t \in bookCalls : r.plan = t.plan /\ r.stage = t.stage => r = t
    /\ \A r, t \in bookCalls :
          r.stage = "synthesis" /\ t.stage = "synthesis" /\ r.text = t.text => r.plan = t.plan

LEMMA ReceiptsStep ==
    ASSUME DraftsInv, ReceiptsInv, [BookNext]_bookVars, BookWorkInv
    PROVE  ReceiptsInv'
<1>1. CASE UNCHANGED bookCalls /\ bookDraws' \in Nat /\ bookDraws' >= bookDraws
  <2>1. \A r \in bookCalls : r.stage = "synthesis" => r.text \in 2..(bookDraws' + 1)
    BY <1>1 DEF ReceiptsInv, IsReceipt
  <2>2. QED BY <1>1, <2>1 DEF ReceiptsInv, IsReceipt
<1>2. ASSUME NEW d \in DraftIds, DraftAnswers(d) PROVE ReceiptsInv'
  <2>0. PICK new : new = [plan |-> bookWork.plan, stage |-> d, text |-> NoText]
    OBVIOUS
  <2>1. bookCalls' = bookCalls \cup {new} /\ bookDraws' = bookDraws /\ Receipts(d) = {} /\ d # "synthesis"
    BY <1>2, <2>0, BookAssumption DEF DraftAnswers, DraftsInv
  <2>2. new.plan = bookWork.plan /\ new.stage = d /\ new.text = NoText
    BY <2>0
  <2>3. \A r \in bookCalls : ~(r.plan = new.plan /\ r.stage = new.stage)
    BY <2>1, <2>2 DEF Receipts
  <2>4. IsReceipt(new)
    BY <2>0, <2>1 DEF IsReceipt, Stages
  <2>5. \A r \in bookCalls' : IsReceipt(r)
    BY <2>1, <2>4 DEF ReceiptsInv
  <2>6. \A r \in bookCalls' : IsReceipt(r)'
    BY <2>1, <2>5 DEF IsReceipt
  <2>7. QED BY <2>1, <2>2, <2>3, <2>6 DEF ReceiptsInv
<1>3. CASE SynthesisAnswers
  <2>0. PICK new : new = [plan |-> bookWork.plan, stage |-> "synthesis", text |-> bookDraws + 2]
    OBVIOUS
  <2>1. bookCalls' = bookCalls \cup {new} /\ bookDraws' = bookDraws + 1 /\ Receipts("synthesis") = {}
        /\ bookDraws \in Nat
    BY <1>3, <2>0 DEF SynthesisAnswers, DraftsInv, ReceiptsInv
  <2>2. new = [plan |-> new.plan, stage |-> new.stage, text |-> new.text]
        /\ new.plan = bookWork.plan /\ new.stage = "synthesis" /\ new.text = bookDraws + 2
    BY <2>0
  <2>3. \A r \in bookCalls : ~(r.plan = new.plan /\ r.stage = new.stage)
    BY <2>1, <2>2 DEF Receipts
  <2>4. IsReceipt(new)'
    BY <2>1, <2>2 DEF IsReceipt, Stages
  <2>5. \A r \in bookCalls : IsReceipt(r)' /\ (r.stage = "synthesis" => r.text # new.text)
    BY <2>1, <2>2 DEF IsReceipt, ReceiptsInv
  <2>6. bookDraws' \in Nat
    BY <2>1
  <2>7. QED BY <2>1, <2>2, <2>3, <2>4, <2>5, <2>6 DEF ReceiptsInv
<1>4. CASE OrdinaryStep
  <2>1. bookDraws \in Nat /\ (bookDraws' = bookDraws \/ bookDraws' = bookDraws + 1)
    BY <1>4, OrdinarySteps DEF TranslateBatch, ReceiptsInv
  <2>2. UNCHANGED bookCalls
    BY <1>4, OrdinarySteps
  <2>3. QED BY <1>1, <2>1, <2>2
<1>5. CASE UNCHANGED <<bookCalls, bookDraws>>
  BY <1>1, <1>5 DEF ReceiptsInv
<1>6. CASE UNCHANGED bookVars
  BY <1>5, <1>6 DEF bookVars, bookPrecision
<1>7. ASSUME NEW d \in DraftIds, DraftFails(d) \/ BindDraft(d) PROVE ReceiptsInv'
  BY <1>5, <1>7 DEF DraftFails, BindDraft, bookPrecision
<1>8. CASE \/ ReuseResults \/ DraftsEnd \/ RecoverSynthesis \/ WriteResult \/ PreparePublication \/ MergeBatch
           \/ MarkPublished \/ InvocationFails
  BY <1>5, <1>8 DEF ReuseResults, DraftsEnd, RecoverSynthesis, WriteResult, PreparePublication,
     MergeBatch,
     MarkPublished, InvocationFails, bookPrecision
<1>9. QED
  BY <1>2, <1>3, <1>4, <1>6, <1>7, <1>8, BookSteps


\* The text of a synthesis of a plan has a receipt.
IsSynthesis(plan, text) == [plan |-> plan, stage |-> "synthesis", text |-> text] \in bookCalls

\* There is a result of the plan only when its receipt was there, and one at most.
ResultsInv ==
    /\ \A r \in bookResults : r = [plan |-> r.plan, text |-> r.text] /\ IsSynthesis(r.plan, r.text)
    /\ \A r, t \in bookResults : r.plan = t.plan => r = t
    /\ bookWork.pc \in {"result", "publish", "merge", "mark"} => IsSynthesis(bookWork.plan, bookWork.text)
    /\ bookWork.pc \in {"drafts", "synthesis", "synthesizing", "result"} =>
          \A r \in bookResults : r.plan # bookWork.plan

LEMMA SynthesisStays ==
    ASSUME [BookNext]_bookVars, BookWorkInv
    PROVE  bookCalls \subseteq bookCalls'
<1>1. CASE OrdinaryStep
  BY <1>1, OrdinarySteps
<1>2. CASE UNCHANGED bookVars
  BY <1>2 DEF bookVars, bookPrecision
<1>3. ASSUME NEW d \in DraftIds, DraftAnswers(d) \/ DraftFails(d) \/ BindDraft(d)
      PROVE  bookCalls \subseteq bookCalls'
  BY <1>3 DEF DraftAnswers, DraftFails, BindDraft, bookPrecision
<1>4. CASE \/ ReuseResults \/ DraftsEnd \/ RecoverSynthesis \/ SynthesisAnswers \/ WriteResult
           \/ PreparePublication \/ MergeBatch \/ MarkPublished \/ InvocationFails
  BY <1>4 DEF ReuseResults, DraftsEnd, RecoverSynthesis, SynthesisAnswers, WriteResult,
     PreparePublication,
     MergeBatch, MarkPublished, InvocationFails, bookPrecision
<1>5. QED BY <1>1, <1>2, <1>3, <1>4, BookSteps

LEMMA ResultsStep ==
    ASSUME ResultsInv, ReceiptsInv, BookWorkInv, [BookNext]_bookVars
    PROVE  ResultsInv'
<1>0. \A plan, text : IsSynthesis(plan, text) => IsSynthesis(plan, text)'
  BY SynthesisStays DEF IsSynthesis
<1> USE DEF ResultsInv
<1>1. CASE UNCHANGED <<bookResults, bookWork>>
  BY <1>0, <1>1
<1>2. CASE UNCHANGED bookResults /\ ~InPrecision(bookWork'.pc)
  BY <1>0, <1>2 DEF InPrecision
<1>3. CASE OrdinaryStep
  BY <1>2, <1>3, OrdinarySteps
<1>4. CASE UNCHANGED bookVars
  BY <1>1, <1>4 DEF bookVars, bookPrecision
<1>5. ASSUME NEW d \in DraftIds, DraftAnswers(d) \/ DraftFails(d) \/ BindDraft(d)
      PROVE  ResultsInv'
  BY <1>1, <1>5 DEF DraftAnswers, DraftFails, BindDraft, bookPrecision
<1>6. CASE ReuseResults
  <2>1. UNCHANGED bookResults /\ bookWork'.plan = bookWork.plan
    BY <1>6, PrecisionWork DEF ReuseResults, bookPrecision, KeepsPlan
  <2>2. \/ /\ bookWork'.pc = "publish"
           /\ \E r \in bookResults : r.plan = bookWork.plan /\ bookWork'.text = r.text
        \/ bookWork'.pc = "drafts" /\ \A r \in bookResults : r.plan # bookWork.plan
    BY <1>6, PrecisionWork DEF WorkGoes
  <2>3. bookWork'.pc = "publish" => IsSynthesis(bookWork.plan, bookWork'.text)
    BY <2>2
  <2>4. QED BY <1>0, <2>1, <2>2, <2>3
<1>7. CASE DraftsEnd
  <2>1. UNCHANGED bookResults /\ bookWork.pc = "drafts"
    BY <1>7 DEF DraftsEnd, bookPrecision
  <2>2. bookWork'.pc = "idle" \/ (bookWork'.pc = "synthesis" /\ bookWork'.plan = bookWork.plan)
    BY <1>7, PrecisionWork DEF GoesOnTo, WorkGoes, IdleWork, KeepsPlan
  <2>3. QED BY <1>0, <2>1, <2>2
<1>8. CASE RecoverSynthesis
  <2>1. UNCHANGED bookResults /\ bookWork.pc = "synthesis" /\ bookWork'.plan = bookWork.plan
    BY <1>8, PrecisionWork DEF RecoverSynthesis, bookPrecision, KeepsPlan
  <2>2. \/ bookWork'.pc = "synthesizing"
        \/ bookWork'.pc = "result" /\ \E r \in Receipts("synthesis") : bookWork'.text = r.text
    BY <1>8, PrecisionWork DEF WorkGoes
  <2>3. bookWork'.pc = "result" => IsSynthesis(bookWork.plan, bookWork'.text)
    <3>1. SUFFICES ASSUME NEW r \in Receipts("synthesis"), bookWork'.text = r.text
                   PROVE  IsSynthesis(bookWork.plan, bookWork'.text)
      BY <2>2
    <3>2. r \in bookCalls /\ r.plan = bookWork.plan /\ r.stage = "synthesis"
          /\ r = [plan |-> r.plan, stage |-> r.stage, text |-> r.text]
      BY DEF Receipts, ReceiptsInv, IsReceipt
    <3>3. QED BY <3>1, <3>2 DEF IsSynthesis
  <2>4. QED BY <1>0, <2>1, <2>2, <2>3
<1>9. CASE SynthesisAnswers
  <2>1. /\ UNCHANGED bookResults /\ bookWork.pc = "synthesizing" /\ bookWork'.plan = bookWork.plan
        /\ bookWork'.pc = "result" /\ bookWork'.text = bookDraws + 2
    BY <1>9, PrecisionWork DEF SynthesisAnswers, KeepsPlan, WorkGoes
  <2>2. IsSynthesis(bookWork.plan, bookWork.text)'
    <3>1. [plan |-> bookWork.plan, stage |-> "synthesis", text |-> bookDraws + 2] \in bookCalls'
      BY <1>9 DEF SynthesisAnswers
    <3>2. [plan |-> bookWork'.plan, stage |-> "synthesis", text |-> bookWork'.text] \in bookCalls'
      BY <2>1, <3>1
    <3>3. QED BY <3>2 DEF IsSynthesis
  <2>3. QED BY <1>0, <2>1, <2>2
<1>10. CASE WriteResult
  <2>0. PICK new : new = [plan |-> bookWork.plan, text |-> bookWork.text]
    OBVIOUS
  <2>1. new.plan = bookWork.plan /\ new.text = bookWork.text /\ new = [plan |-> new.plan, text |-> new.text]
    BY <2>0
  <2>2. bookResults' = bookResults \cup {new} /\ bookWork.pc = "result"
    BY <1>10, <2>0 DEF WriteResult
  <2>3. bookWork'.pc = "publish" /\ bookWork'.plan = bookWork.plan /\ bookWork'.text = bookWork.text
    BY <1>10, WorkMoves DEF GoesOnTo, WorkGoes, KeepsPlan
  <2>4. IsSynthesis(new.plan, new.text)
    BY <2>1, <2>2
  <2>5. \A r \in bookResults : r.plan # new.plan
    BY <2>1, <2>2
  <2>6. QED BY <1>0, <2>1, <2>2, <2>3, <2>4, <2>5
<1>11. CASE PreparePublication
  <2>1. UNCHANGED bookResults /\ bookWork.pc = "publish"
    BY <1>11 DEF PreparePublication
  <2>2. bookWork'.pc = "merge" /\ bookWork'.plan = bookWork.plan /\ bookWork'.text = bookWork.text
    BY <1>11, WorkMoves DEF GoesOnTo, WorkGoes, KeepsPlan
  <2>3. QED BY <1>0, <2>1, <2>2
<1>12. CASE MergeBatch
  <2>1. UNCHANGED bookResults /\ bookWork.pc = "merge"
    BY <1>12 DEF MergeBatch, bookPrecision
  <2>2. \/ bookWork'.pc = "idle"
        \/ bookWork'.pc = "mark" /\ bookWork'.plan = bookWork.plan /\ bookWork'.text = bookWork.text
    BY <1>12, PrecisionWork DEF WorkGoes, KeepsPlan, IdleWork
  <2>3. QED BY <1>0, <2>1, <2>2
<1>13. CASE MarkPublished
  <2>1. UNCHANGED bookResults /\ bookWork'.pc = "align"
    BY <1>13, WorkMoves DEF MarkPublished, GoesOnTo, WorkGoes
  <2>2. QED BY <1>2, <2>1 DEF InPrecision
<1>14. CASE InvocationFails
  BY <1>2, <1>14 DEF InvocationFails, bookPrecision, IdleWork, InPrecision
<1>15. QED
  BY <1>3, <1>4, <1>5, <1>6, <1>7, <1>8, <1>9, <1>10, <1>11, <1>12, <1>13, <1>14, BookSteps

\* A plan has one publication, of a text it has a receipt for.
IsPublication(p) ==
    /\ p = [plan |-> p.plan, text |-> p.text, status |-> p.status]
    /\ p.status \in {"ready", "published"} /\ IsSynthesis(p.plan, p.text)
PublicationsInv ==
    /\ \A p \in bookPublications : IsPublication(p)
    /\ \A p, q \in bookPublications : p.plan = q.plan => p = q

\* Marking publications: each keeps its plan and its text.
LEMMA MarkedPublications ==
    ASSUME PublicationsInv, NEW marked, bookCalls \subseteq bookCalls',
           bookPublications' = {IF p \in marked THEN [p EXCEPT !.status = "published"] ELSE p :
                                   p \in bookPublications}
    PROVE  /\ PublicationsInv'
           /\ \A p \in bookPublications' : p.status = "ready" => p \in bookPublications /\ p \notin marked
<1> DEFINE Mark(p) == IF p \in marked THEN [p EXCEPT !.status = "published"] ELSE p
<1>1. ASSUME NEW p \in bookPublications
      PROVE  /\ IsPublication(Mark(p))' /\ Mark(p).plan = p.plan
             /\ Mark(p).status = "ready" => Mark(p) = p /\ p \notin marked
  <2>1. IsPublication(p)
    BY DEF PublicationsInv
  <2>2. PICK q : q = Mark(p)
    OBVIOUS
  <2>3. /\ q = [plan |-> q.plan, text |-> q.text, status |-> q.status] /\ q.plan = p.plan /\ q.text = p.text
        /\ q.status \in {"ready", "published"} /\ (q.status = "ready" => q = p /\ p \notin marked)
    BY <2>1, <2>2 DEF IsPublication
  <2>4. IsSynthesis(q.plan, q.text)'
    BY <2>1, <2>3 DEF IsPublication, IsSynthesis
  <2>5. IsPublication(q)'
    BY <2>3, <2>4 DEF IsPublication
  <2>6. QED BY <2>2, <2>3, <2>5
<1>2. bookPublications' = {Mark(p) : p \in bookPublications}
  OBVIOUS
<1> HIDE DEF Mark
<1>3. ASSUME NEW p \in bookPublications', NEW q \in bookPublications', p.plan = q.plan
      PROVE  p = q
  <2>1. PICK x \in bookPublications, y \in bookPublications : p = Mark(x) /\ q = Mark(y)
    BY <1>2
  <2>2. x.plan = y.plan
    BY <1>1, <1>3, <2>1
  <2>3. QED BY <2>1, <2>2 DEF PublicationsInv
<1>4. \A p \in bookPublications' : IsPublication(p)'
  BY <1>1, <1>2
<1>5. QED BY <1>1, <1>2, <1>3, <1>4 DEF PublicationsInv

LEMMA PublicationsStep ==
    ASSUME PublicationsInv, ResultsInv, BookWorkInv, [BookNext]_bookVars
    PROVE  PublicationsInv'
<1>0. bookCalls \subseteq bookCalls'
  BY SynthesisStays
<1>1. CASE UNCHANGED bookPublications
  BY <1>0, <1>1 DEF PublicationsInv, IsPublication, IsSynthesis
<1>2. CASE OpenChapter
  <2>1. PICK marked : marked = {p \in bookPublications : Reached(p)}
    OBVIOUS
  <2>2. bookPublications' = {IF p \in marked THEN [p EXCEPT !.status = "published"] ELSE p :
                               p \in bookPublications}
    BY <1>2, <2>1 DEF OpenChapter, Recovered
  <2>3. QED BY <1>0, <2>2, MarkedPublications
<1>3. CASE MarkPublished
  <2>1. PICK marked : marked = {p \in bookPublications : p.plan = bookWork.plan}
    OBVIOUS
  <2>2. bookPublications' = {IF p \in marked THEN [p EXCEPT !.status = "published"] ELSE p :
                               p \in bookPublications}
    BY <1>3, <2>1 DEF MarkPublished
  <2>3. QED BY <1>0, <2>2, MarkedPublications
<1>4. CASE PreparePublication
  <2>1. CASE \E p \in bookPublications : p.plan = bookWork.plan
    BY <1>1, <1>4, <2>1 DEF PreparePublication
  <2>2. CASE \A p \in bookPublications : p.plan # bookWork.plan
    <3>0. PICK new : new = [plan |-> bookWork.plan, text |-> bookWork.text, status |-> "ready"]
      OBVIOUS
    <3>1. bookPublications' = bookPublications \cup {new} /\ bookCalls' = bookCalls /\ bookWork.pc = "publish"
      BY <1>4, <2>2, <3>0 DEF PreparePublication
    <3>2. new = [plan |-> new.plan, text |-> new.text, status |-> new.status]
          /\ new.plan = bookWork.plan /\ new.text = bookWork.text /\ new.status = "ready"
      BY <3>0
    <3>3. IsSynthesis(new.plan, new.text)
      BY <3>1, <3>2 DEF ResultsInv
    <3>4. \A p \in bookPublications' : IsPublication(p)
      BY <3>1, <3>2, <3>3 DEF IsPublication, PublicationsInv
    <3>5. \A p \in bookPublications' : IsPublication(p)'
      BY <3>1, <3>4 DEF IsPublication, IsSynthesis
    <3>6. QED BY <2>2, <3>1, <3>2, <3>5 DEF PublicationsInv
  <2>3. QED BY <2>1, <2>2
<1>5. CASE OrdinaryStep
  BY <1>1, <1>2, <1>5, OrdinarySteps
<1>6. CASE UNCHANGED bookVars
  BY <1>1, <1>6 DEF bookVars, bookPrecision
<1>7. ASSUME NEW d \in DraftIds, DraftAnswers(d) \/ DraftFails(d) \/ BindDraft(d)
      PROVE  PublicationsInv'
  BY <1>1, <1>7 DEF DraftAnswers, DraftFails, BindDraft, bookPrecision
<1>8. CASE \/ ReuseResults \/ DraftsEnd \/ RecoverSynthesis \/ SynthesisAnswers \/ WriteResult \/ MergeBatch
           \/ InvocationFails
  BY <1>1, <1>8 DEF ReuseResults, DraftsEnd, RecoverSynthesis, SynthesisAnswers, WriteResult, MergeBatch,
     InvocationFails, bookPrecision
<1>9. QED
  BY <1>2, <1>3, <1>4, <1>5, <1>6, <1>7, <1>8, BookSteps


-----------------------------------------------------------------------------
(* TranslationBatches: the texts on disk and the copy in memory            *)

Opened == bookWork.pc \notin {"idle", "chapter"}

CountersInv == bookFailures \in 0..MaxBookFailures /\ bookEdits \in 0..MaxBookEdits

LEMMA CountersStep ==
    ASSUME CountersInv, BookWorkInv, [BookNext]_bookVars
    PROVE  CountersInv'
<1> USE BookAssumption DEF CountersInv, bookGhosts
<1>1. CASE OrdinaryStep
  <2>1. UNCHANGED bookFailures
    BY <1>1, OrdinarySteps
  <2>2. CASE \E c \in 1..Chapters : \E s \in Segments(c) : EditSegment(c, s)
    BY <2>1, <2>2 DEF EditSegment
  <2>3. CASE UNCHANGED bookEdits
    BY <2>1, <2>3
  <2>4. QED
    BY <1>1, <2>2, <2>3 DEF OrdinaryStep, StartBook, OpenChapter, SkipBatch, PlanBatch, TranslateBatch,
       SaveBatch, AlignBatch, ExtractTerms, LogExtraction, ExtractChapter, CloseChapter, EndBook
<1>2. CASE UNCHANGED bookVars
  BY <1>2 DEF bookVars
<1>3. ASSUME NEW d \in DraftIds, DraftAnswers(d) \/ DraftFails(d) \/ BindDraft(d)
      PROVE  CountersInv'
  BY <1>3 DEF DraftAnswers, DraftFails, BindDraft
<1>4. CASE \/ ReuseResults \/ DraftsEnd \/ RecoverSynthesis \/ SynthesisAnswers \/ WriteResult
           \/ PreparePublication \/ MergeBatch \/ MarkPublished \/ InvocationFails
  BY <1>4 DEF ReuseResults, DraftsEnd, RecoverSynthesis, SynthesisAnswers, WriteResult,
     PreparePublication,
     MergeBatch, MarkPublished, InvocationFails
<1>5. QED BY <1>1, <1>2, <1>3, <1>4, BookSteps

TextsInv ==
    /\ bookText \in [1..Chapters -> Seq(Nat)]
    /\ \A c \in 1..Chapters : Len(bookText[c]) = Length[c]

\* The copy is the chapter as it is on disk, but for the text it is about to save.
CopyInv ==
    /\ Opened /\ bookWork.pc # "save" => bookWork.copy = bookText[Chapter]
    /\ bookWork.pc = "save" =>
          /\ bookWork.copy = Filled(bookText[Chapter], bookWork.plan, bookDraws + 1)
          /\ bookDraws >= 1

LEMMA FilledTexts ==
    ASSUME NEW texts \in Seq(Nat), NEW plan, NEW text \in Nat
    PROVE  /\ Filled(texts, plan, text) \in Seq(Nat) /\ Len(Filled(texts, plan, text)) = Len(texts)
           /\ \A s \in 1..Len(texts) :
                 Filled(texts, plan, text)[s] = IF s \in Span(plan) THEN text ELSE texts[s]
<1>1. Len(texts) \in Nat /\ DOMAIN texts = 1..Len(texts) /\ \A s \in 1..Len(texts) : texts[s] \in Nat
  BY LenProperties, ElementOfSeq
<1>2. PICK filled : filled = Filled(texts, plan, text)
  OBVIOUS
<1>3. filled \in [1..Len(texts) -> Nat]
      /\ \A s \in 1..Len(texts) : filled[s] = IF s \in Span(plan) THEN text ELSE texts[s]
  BY <1>1, <1>2 DEF Filled
<1>4. filled \in Seq(Nat) /\ Len(filled) = Len(texts)
  <2>1. filled \in Seq(Nat)
    BY <1>1, <1>3, SeqDef
  <2>2. Len(filled) \in Nat /\ DOMAIN filled = 1..Len(filled)
    BY <2>1, LenProperties
  <2>3. \A n : n \in 1..Len(filled) <=> n \in 1..Len(texts)
    BY <1>3, <2>2
  <2>4. ~(Len(filled) < Len(texts))
    <3>1. Len(filled) < Len(texts) => Len(texts) \in 1..Len(texts) /\ Len(texts) \notin 1..Len(filled)
      BY <1>1, <2>2
    <3>2. QED BY <2>3, <3>1
  <2>5. ~(Len(texts) < Len(filled))
    <3>1. Len(texts) < Len(filled) => Len(filled) \in 1..Len(filled) /\ Len(filled) \notin 1..Len(texts)
      BY <1>1, <2>2
    <3>2. QED BY <2>3, <3>1
  <2>6. PICK m \in Nat, n \in Nat : m = Len(filled) /\ n = Len(texts)
    BY <1>1, <2>2
  <2>7. m = n
    BY <2>4, <2>5, <2>6
  <2>8. QED BY <2>1, <2>6, <2>7
<1>5. QED BY <1>2, <1>3, <1>4

\* The texts of a chapter change when a batch is saved or merged, and when the user edits.
Fills(text) ==
    /\ bookWork.pc \in {"save", "merge"} /\ text \in Nat /\ text >= 2
    /\ bookText' = [bookText EXCEPT ![Chapter] = Filled(bookText[Chapter], bookWork.plan, text)]
    /\ WorkGoes(IF bookWork.pc = "save" THEN "align" ELSE "mark")
    /\ KeepsChapter /\ KeepsBatches /\ KeepsTerms /\ KeepsPlan
    /\ bookWork.pc = "merge" => text = bookWork.text /\ bookWork'.text = bookWork.text
    /\ bookWork.pc = "save" => text = bookDraws + 1
    /\ UNCHANGED <<bookStatus, bookGlossary, bookPrecision, bookDraws, bookGhosts, bookFailures>>
Edits ==
    /\ ~Working /\ UNCHANGED bookWork /\ bookEdits' # bookEdits /\ bookVaried' = TRUE
    /\ \E c \in 1..Chapters : \E s \in Segments(c) : bookText' = [bookText EXCEPT ![c][s] = UserText]
    /\ UNCHANGED <<bookStatus, bookGlossary, bookPrecision, bookDraws, bookSettings>>

LEMMA ChapterTexts ==
    ASSUME BookWorkInv, TextsInv, CopyInv, ReceiptsInv, Working, bookWork.todo # {}
    PROVE  /\ Chapter \in 1..Chapters /\ bookText[Chapter] \in Seq(Nat)
           /\ Len(bookText[Chapter]) = Length[Chapter] /\ Length[Chapter] \in Nat
           /\ DOMAIN bookText[Chapter] = 1..Length[Chapter]
           /\ \A s \in 1..Length[Chapter] : bookText[Chapter][s] \in Nat
<1>1. Chapter \in 1..Chapters
  BY ChapterIsLeast
<1>2. bookText[Chapter] \in Seq(Nat) /\ Len(bookText[Chapter]) = Length[Chapter]
  BY <1>1 DEF TextsInv
<1>3. QED BY <1>1, <1>2, LenProperties, ElementOfSeq

LEMMA ChapterKept ==
    ASSUME KeepsChapter
    PROVE  Chapter' = Chapter
BY DEF KeepsChapter, Chapter

\* Saving the copy as it is changes nothing.
LEMMA SavesTheSame ==
    ASSUME TextsInv, bookWork.copy = bookText[Chapter], SaveCopy
    PROVE  bookText' = bookText
BY DEF TextsInv, SaveCopy

LEMMA TextsStep ==
    ASSUME BookWorkInv, CountersInv, ReceiptsInv, ResultsInv, TextsInv, CopyInv, [BookNext]_bookVars
    PROVE  /\ TextsInv' /\ CopyInv'
           /\ UNCHANGED bookText \/ Edits \/ \E text : Fills(text)
<1>1. CASE UNCHANGED <<bookText, bookWork, bookDraws>>
  BY <1>1 DEF TextsInv, CopyInv, Opened, Chapter
<1>2. CASE UNCHANGED bookText /\ KeepsChapter /\ KeepsCopy /\ bookWork.pc # "save" /\ bookWork'.pc # "save"
           /\ Opened
  BY <1>2, ChapterKept DEF TextsInv, CopyInv, KeepsCopy, Opened
<1>3. CASE UNCHANGED bookText /\ bookWork'.pc \in {"idle", "chapter"}
  BY <1>3 DEF TextsInv, CopyInv, Opened
<1>4. ASSUME NEW pc \in BookPcs \ {"idle", "chapter", "save"}, GoesOnTo(pc), UNCHANGED bookText,
             Opened, bookWork.pc # "save"
      PROVE  TextsInv' /\ CopyInv'
  BY <1>2, <1>4 DEF GoesOnTo, WorkGoes
<1>5. ASSUME NEW text \in Nat, Fills(text), Opened, bookWork'.copy = Filled(bookText[Chapter], bookWork.plan, text)
      PROVE  TextsInv' /\ CopyInv'
  <2>1. Working /\ bookWork.todo # {}
    BY <1>5 DEF BookWorkInv, Working, Opened
  <2>2. Chapter \in 1..Chapters /\ bookText[Chapter] \in Seq(Nat) /\ Len(bookText[Chapter]) = Length[Chapter]
    BY <2>1, ChapterTexts
  <2>3. PICK filled : filled = Filled(bookText[Chapter], bookWork.plan, text)
    OBVIOUS
  <2>4. filled \in Seq(Nat) /\ Len(filled) = Length[Chapter]
    BY <2>2, <2>3, FilledTexts
  <2>5. bookText' = [bookText EXCEPT ![Chapter] = filled] /\ bookWork'.copy = filled /\ Chapter' = Chapter
    BY <1>5, <2>3, ChapterKept DEF Fills
  <2>6. bookText' \in [1..Chapters -> Seq(Nat)] /\ bookText'[Chapter] = filled
        /\ \A c \in 1..Chapters \ {Chapter} : bookText'[c] = bookText[c]
    BY <2>2, <2>4, <2>5 DEF TextsInv
  <2>7. TextsInv'
    BY <2>4, <2>6 DEF TextsInv
  <2>8. bookWork'.pc # "save"
    BY <1>5 DEF Fills, WorkGoes
  <2>9. QED BY <2>5, <2>6, <2>7, <2>8 DEF CopyInv
<1>6. CASE UNCHANGED bookVars
  BY <1>1, <1>6 DEF bookVars, bookFormal
<1>7. CASE \E settings \in Settings : StartBook(settings)
  <2>1. UNCHANGED bookText /\ bookWork'.pc = "chapter"
    BY <1>7, StartsWork DEF StartBook, bookFormal, WorkGoes
  <2>2. QED BY <1>3, <2>1
<1>8. CASE OpenChapter
  <2>1. UNCHANGED bookText
    BY <1>8 DEF OpenChapter
  <2>2. CASE Length[Chapter] = 0
    BY <1>3, <1>8, <2>1, <2>2, OpensWork DEF WorkGoes
  <2>3. CASE Length[Chapter] # 0
    <3>1. bookWork'.pc = "batch" /\ KeepsChapter /\ bookWork'.copy = bookText[Chapter]
      BY <1>8, <2>3, OpensWork DEF WorkGoes
    <3>2. QED BY <2>1, <3>1, ChapterKept DEF TextsInv, CopyInv
  <2>4. QED BY <2>1, <2>2, <2>3
<1>9. CASE SkipBatch \/ WriteResult \/ PreparePublication \/ MarkPublished \/ ExtractTerms \/ ExtractChapter
  <2>1. UNCHANGED bookText /\ Opened /\ bookWork.pc # "save"
    BY <1>9 DEF SkipBatch, WriteResult, PreparePublication, MarkPublished, ExtractTerms, ExtractChapter,
       bookFormal, Opened
  <2>2. \E pc \in BookPcs \ {"idle", "chapter", "save"} : GoesOnTo(pc)
    BY <1>9, WorkMoves DEF BookPcs
  <2>3. QED BY <1>4, <2>1, <2>2
<1>10. CASE PlanBatch
  <2>1. UNCHANGED bookText /\ Opened /\ bookWork.pc # "save"
    BY <1>10 DEF PlanBatch, bookFormal, Opened
  <2>2. KeepsChapter /\ KeepsCopy /\ bookWork'.pc # "save"
    BY <1>10, PlansWork DEF WorkGoes
  <2>3. QED BY <1>2, <2>1, <2>2
<1>11. CASE TranslateBatch
  <2>1. UNCHANGED bookText /\ bookDraws' = bookDraws + 1 /\ bookWork.copy = bookText[Chapter]
    BY <1>11 DEF TranslateBatch, bookFormal, Opened, CopyInv
  <2>2. /\ bookWork'.pc = "save" /\ KeepsChapter /\ bookWork'.plan = bookWork.plan
        /\ bookWork'.copy = Filled(bookText[Chapter], bookWork.plan, bookDraws + 2)
    BY <1>11, <2>1, TranslatesWork DEF WorkGoes, KeepsPlan
  <2>3. bookDraws + 2 = bookDraws' + 1 /\ bookDraws' >= 1
    BY <2>1 DEF ReceiptsInv
  <2>4. QED BY <2>1, <2>2, <2>3, ChapterKept DEF TextsInv, CopyInv, Opened
<1>12. CASE SaveBatch
  <2>1. PICK text : text = bookDraws + 1
    OBVIOUS
  <2>2. /\ bookWork.pc = "save" /\ Opened /\ bookWork.copy = Filled(bookText[Chapter], bookWork.plan, text)
        /\ text \in Nat /\ text >= 2
    BY <1>12, <2>1 DEF SaveBatch, Opened, CopyInv, ReceiptsInv
  <2>3. bookText' = [bookText EXCEPT ![Chapter] = Filled(bookText[Chapter], bookWork.plan, text)]
    BY <1>12, <2>2 DEF SaveBatch, SaveCopy
  <2>4. GoesOnTo("align")
    BY <1>12, WorkMoves
  <2>5. UNCHANGED <<bookStatus, bookGlossary, bookPrecision, bookDraws, bookGhosts, bookFailures>>
    BY <1>12 DEF SaveBatch
  <2>6. Fills(text)
    BY <2>1, <2>2, <2>3, <2>4, <2>5 DEF Fills, GoesOnTo
  <2>7. bookWork'.copy = Filled(bookText[Chapter], bookWork.plan, text)
    BY <2>2, <2>4 DEF GoesOnTo, KeepsCopy
  <2>8. QED BY <1>5, <2>2, <2>6, <2>7
<1>13. CASE ReuseResults \/ RecoverSynthesis \/ SynthesisAnswers
  <2>1. UNCHANGED bookText /\ Opened /\ bookWork.pc # "save"
    BY <1>13 DEF ReuseResults, RecoverSynthesis, SynthesisAnswers, bookFormal, Opened
  <2>2. KeepsChapter /\ KeepsCopy /\ bookWork'.pc # "save"
    BY <1>13, PrecisionWork DEF WorkGoes
  <2>3. QED BY <1>2, <2>1, <2>2
<1>14. CASE DraftsEnd
  <2>1. UNCHANGED bookText /\ Opened /\ bookWork.pc # "save"
    BY <1>14 DEF DraftsEnd, bookFormal, Opened
  <2>2. bookWork'.pc = "idle" \/ GoesOnTo("synthesis")
    BY <1>14, PrecisionWork DEF IdleWork
  <2>3. QED BY <1>3, <1>4, <2>1, <2>2 DEF BookPcs
<1>15. CASE MergeBatch
  <2>1. bookWork.pc = "merge" /\ Opened
    BY <1>15 DEF MergeBatch, Opened
  <2>2. CASE bookWork' = IdleWork /\ UNCHANGED bookText
    BY <1>3, <2>2 DEF IdleWork
  <2>3. CASE ~(bookWork' = IdleWork /\ UNCHANGED bookText)
    <3>1. PICK text : text = bookWork.text
      OBVIOUS
    <3>2. text \in Nat /\ text >= 2
      <4>1. PICK r : r = [plan |-> bookWork.plan, stage |-> "synthesis", text |-> text]
        OBVIOUS
      <4>2. r \in bookCalls /\ r.stage = "synthesis" /\ r.text = text
        BY <2>1, <3>1, <4>1 DEF ResultsInv, IsSynthesis
      <4>3. QED BY <4>2 DEF ReceiptsInv, IsReceipt
    <3>3. UNCHANGED <<bookStatus, bookGlossary, bookPrecision, bookDraws, bookGhosts, bookFailures>>
      BY <1>15 DEF MergeBatch
    <3>4. Fills(text) /\ bookWork'.copy = Filled(bookText[Chapter], bookWork.plan, text)
      BY <1>15, <2>1, <2>3, <3>1, <3>2, <3>3, PrecisionWork DEF Fills
    <3>5. QED BY <1>5, <2>1, <3>2, <3>4
  <2>4. QED BY <2>2, <2>3
<1>16. CASE AlignBatch
  <2>1. bookWork.pc = "align" /\ Opened /\ bookWork.copy = bookText[Chapter]
    BY <1>16 DEF AlignBatch, Opened, CopyInv
  <2>2. UNCHANGED bookText
    BY <1>16, <2>1, SavesTheSame DEF AlignBatch
  <2>3. KeepsChapter /\ KeepsCopy /\ bookWork'.pc # "save"
    BY <1>16, BatchEndsWork DEF WorkGoes
  <2>4. QED BY <1>2, <2>1, <2>2, <2>3
<1>17. CASE LogExtraction
  <2>1. UNCHANGED bookText /\ Opened /\ bookWork.pc # "save"
    BY <1>17 DEF LogExtraction, bookFormal, Opened
  <2>2. KeepsChapter /\ KeepsCopy /\ bookWork'.pc # "save"
    BY <1>17, BatchEndsWork DEF WorkGoes
  <2>3. QED BY <1>2, <2>1, <2>2
<1>18. CASE CloseChapter
  <2>1. bookWork.pc \in {"close", "closing"} /\ Opened /\ bookWork.copy = bookText[Chapter]
    BY <1>18 DEF CloseChapter, Opened, CopyInv
  <2>2. UNCHANGED bookText
    BY <1>18, <2>1, SavesTheSame DEF CloseChapter
  <2>3. GoesOnTo("closing") \/ bookWork'.pc = "chapter"
    BY <1>18, BatchEndsWork DEF WorkGoes
  <2>4. QED BY <1>3, <1>4, <2>1, <2>2, <2>3 DEF BookPcs
<1>19. CASE EndBook \/ InvocationFails
  <2>1. UNCHANGED bookText /\ bookWork'.pc = "idle"
    BY <1>19 DEF EndBook, InvocationFails, bookFormal, IdleWork
  <2>2. QED BY <1>3, <2>1
<1>20. CASE \E d \in DraftIds : DraftAnswers(d) \/ DraftFails(d) \/ BindDraft(d)
  BY <1>1, <1>20 DEF DraftAnswers, DraftFails, BindDraft, bookFormal
<1>21. ASSUME NEW c \in 1..Chapters, NEW s \in Segments(c), EditSegment(c, s)
       PROVE  TextsInv' /\ CopyInv' /\ Edits
  <2>1. /\ ~Working /\ UNCHANGED bookWork /\ bookText' = [bookText EXCEPT ![c][s] = UserText]
        /\ bookEdits' = bookEdits + 1 /\ bookEdits < MaxBookEdits /\ bookVaried' = TRUE
    BY <1>21 DEF EditSegment
  <2>2. UNCHANGED <<bookStatus, bookGlossary, bookPrecision, bookDraws, bookSettings>>
    BY <1>21 DEF EditSegment
  <2>3. bookEdits' # bookEdits
    BY <2>1, BookAssumption DEF CountersInv
  <2>4. PICK edited : edited = [bookText[c] EXCEPT ![s] = UserText]
    OBVIOUS
  <2>5. edited \in Seq(Nat) /\ Len(edited) = Length[c]
    <3>1. bookText[c] \in Seq(Nat) /\ Len(bookText[c]) = Length[c]
      BY DEF TextsInv
    <3>2. QED BY <2>4, <3>1 DEF UserText, Segments
  <2>6. bookText' = [bookText EXCEPT ![c] = edited]
    BY <2>1, <2>4
  <2>7. TextsInv'
    BY <2>5, <2>6 DEF TextsInv
  <2>8. QED BY <2>1, <2>2, <2>3, <2>7 DEF CopyInv, Edits, Opened, Working
<1>22. QED
  BY <1>6, <1>7, <1>8, <1>9, <1>10, <1>11, <1>12, <1>13, <1>14, <1>15, <1>16, <1>17, <1>18, <1>19,
     <1>20, <1>21
  DEF BookNext, BookStep, PrecisionStep


-----------------------------------------------------------------------------
(* TranslationBatches: the batches left of a chapter                       *)

Planned == bookWork.pc \in {"request", "save", "reuse", "drafts", "synthesis", "synthesizing", "result",
                            "publish", "merge", "mark"}
Translated == bookWork.pc \in {"mark", "align", "extract", "event"}

IsBatch(b) ==
    /\ b.start \in Nat \ {0} /\ b.count \in Nat \ {0} /\ b.start + b.count - 1 <= Length[Chapter]
    /\ b.done \in BOOLEAN
HasText(b) == \A s \in Span(b) : bookText[Chapter][s] # NoText
HasNone(b) == \A s \in Span(b) : bookText[Chapter][s] = NoText

\* Batches do not overlap; one that is done has a text throughout, the others have none
\* until it is their turn.
BatchesInv ==
    /\ Opened =>
          /\ \A b \in bookWork.batches : IsBatch(b)
          /\ \A b, d \in bookWork.batches :
                b # d => b.start + b.count <= d.start \/ d.start + d.count <= b.start
          /\ \A b \in bookWork.batches :
                /\ b.done => HasText(b)
                /\ ~b.done /\ (b # Batch \/ ~Translated) => HasNone(b)
    /\ Planned \/ Translated => bookWork.batches # {}
    /\ bookWork.pc \in {"close", "closing"} => bookWork.batches = {}
    /\ Planned => /\ bookWork.plan.chapter = Chapter /\ bookWork.plan.start = Batch.start
                  /\ bookWork.plan.count = Batch.count /\ ~Batch.done
    /\ Translated => HasText(Batch)

LEMMA LeastBatch ==
    ASSUME BatchesInv, Opened, bookWork.batches # {}
    PROVE  /\ Batch \in bookWork.batches /\ IsBatch(Batch)
           /\ \A b \in bookWork.batches : Batch.start <= b.start
<1>1. \A b \in bookWork.batches : b.start \in Nat
  BY DEF BatchesInv, IsBatch
<1>2. PICK starts : starts = {b.start : b \in bookWork.batches}
  OBVIOUS
<1>3. starts \in SUBSET Nat /\ starts # {}
  BY <1>1, <1>2
<1>4. PICK start \in starts : \A n \in starts : start <= n
  BY <1>3, SmallestNumber
<1>5. PICK b \in bookWork.batches : b.start = start
  BY <1>2
<1>6. \A d \in bookWork.batches : b.start <= d.start
  BY <1>2, <1>4, <1>5
<1>7. Batch \in bookWork.batches /\ \A d \in bookWork.batches : Batch.start <= d.start
  BY <1>5, <1>6 DEF Batch
<1>8. QED BY <1>7 DEF BatchesInv

LEMMA BatchKept ==
    ASSUME KeepsBatches
    PROVE  Batch' = Batch
BY DEF KeepsBatches, Batch

\* The span of a batch lies in the chapter.
LEMMA SpanWithin ==
    ASSUME BookWorkInv, TextsInv, CopyInv, ReceiptsInv, Opened, NEW b, IsBatch(b)
    PROVE  /\ \A s \in Span(b) : s \in 1..Length[Chapter] /\ s >= b.start /\ s < b.start + b.count
           /\ b.start \in Span(b)
<1>1. Length[Chapter] \in Nat
  BY ChapterTexts DEF BookWorkInv, Working, Opened
<1>2. QED BY <1>1 DEF Span, IsBatch

\* Filling the batch that is translated leaves the others as they are.
LEMMA FillsBatch ==
    ASSUME BookWorkInv, ReceiptsInv, TextsInv, CopyInv, BatchesInv, NEW text, Fills(text)
    PROVE  /\ HasText(Batch)'
           /\ \A b \in bookWork.batches \ {Batch} : (HasText(b) => HasText(b)') /\ (HasNone(b) => HasNone(b)')
           /\ \A c \in 1..Chapters, s \in Nat :
                 c # Chapter \/ s \notin Span(Batch) => bookText'[c][s] = bookText[c][s] \/ s \notin Segments(c)
           /\ \A s \in Span(Batch) : bookText'[Chapter][s] = text
           /\ Chapter' = Chapter /\ Batch' = Batch /\ Span(bookWork.plan) = Span(Batch)
<1>1. Opened /\ Planned /\ Working /\ bookWork.todo # {} /\ text \in Nat /\ text >= 2
  BY DEF Fills, Opened, Planned, BookWorkInv, Working
<1>2. /\ Chapter \in 1..Chapters /\ bookText[Chapter] \in Seq(Nat) /\ Len(bookText[Chapter]) = Length[Chapter]
      /\ Length[Chapter] \in Nat
  BY <1>1, ChapterTexts
<1>3. Batch \in bookWork.batches /\ IsBatch(Batch) /\ Span(bookWork.plan) = Span(Batch)
  <2>1. bookWork.batches # {} /\ bookWork.plan.start = Batch.start /\ bookWork.plan.count = Batch.count
    BY <1>1 DEF BatchesInv
  <2>2. QED BY <1>1, <2>1, LeastBatch DEF Span
<1>4. PICK filled : filled = Filled(bookText[Chapter], bookWork.plan, text)
  OBVIOUS
<1>5. \A s \in 1..Length[Chapter] : filled[s] = IF s \in Span(Batch) THEN text ELSE bookText[Chapter][s]
  BY <1>1, <1>2, <1>3, <1>4, FilledTexts
<1>6. /\ bookText'[Chapter] = filled /\ \A c \in 1..Chapters \ {Chapter} : bookText'[c] = bookText[c]
  BY <1>2, <1>4 DEF Fills, TextsInv
<1>7. Chapter' = Chapter /\ Batch' = Batch
  BY ChapterKept, BatchKept DEF Fills
<1>8. \A s \in Span(Batch) : bookText'[Chapter][s] = text
  BY <1>1, <1>3, <1>5, <1>6, SpanWithin
<1>9. ASSUME NEW b \in bookWork.batches \ {Batch}
      PROVE  (HasText(b) => HasText(b)') /\ (HasNone(b) => HasNone(b)')
  <2>1. IsBatch(b) /\ (b.start + b.count <= Batch.start \/ Batch.start + Batch.count <= b.start)
    BY <1>1, <1>3 DEF BatchesInv
  <2>2. \A s \in Span(b) : s \in 1..Length[Chapter] /\ s \notin Span(Batch)
    <3>1. \A s \in Span(b) : s \in 1..Length[Chapter] /\ s >= b.start /\ s < b.start + b.count
      BY <1>1, <2>1, SpanWithin
    <3>2. \A s \in Span(Batch) : s \in 1..Length[Chapter] /\ s >= Batch.start /\ s < Batch.start + Batch.count
      BY <1>1, <1>3, SpanWithin
    <3>3. QED BY <1>2, <1>3, <2>1, <3>1, <3>2 DEF IsBatch
  <2>3. \A s \in Span(b) : bookText'[Chapter][s] = bookText[Chapter][s]
    BY <1>5, <1>6, <2>2
  <2>4. QED BY <1>7, <2>3 DEF HasText, HasNone
<1>10. HasText(Batch)'
  BY <1>1, <1>7, <1>8 DEF HasText, NoText
<1>11. \A c \in 1..Chapters, s \in Nat :
          c # Chapter \/ s \notin Span(Batch) => bookText'[c][s] = bookText[c][s] \/ s \notin Segments(c)
  BY <1>5, <1>6 DEF Segments
<1>12. QED BY <1>3, <1>7, <1>8, <1>9, <1>10, <1>11


\* A step that leaves the batches and the text alone.
LEMMA BatchesStay ==
    ASSUME BatchesInv, UNCHANGED bookText, KeepsChapter, KeepsBatches, Opened, Translated => Translated',
           Planned' => /\ bookWork.batches # {} /\ ~Batch.done
                       /\ bookWork'.plan.chapter = Chapter /\ bookWork'.plan.start = Batch.start
                       /\ bookWork'.plan.count = Batch.count,
           Translated' => bookWork.batches # {} /\ HasText(Batch),
           bookWork'.pc \in {"close", "closing"} => bookWork.batches = {}
    PROVE  BatchesInv'
<1>1. Chapter' = Chapter /\ Batch' = Batch /\ bookWork'.batches = bookWork.batches
  BY ChapterKept, BatchKept DEF KeepsBatches
<1>2. \A b : /\ IsBatch(b)' <=> IsBatch(b)
             /\ HasText(b)' <=> HasText(b)
             /\ HasNone(b)' <=> HasNone(b)
  BY <1>1 DEF IsBatch, HasText, HasNone
<1>3. HasText(Batch)' <=> HasText(Batch)
  BY <1>1 DEF HasText
<1>4. QED
  BY <1>1, <1>2, <1>3 DEF BatchesInv

\* The batches left once one is over.
LEMMA BatchesLeft ==
    ASSUME BatchesInv, UNCHANGED bookText, KeepsChapter, Translated, WorkGoes("batch"),
           bookWork'.batches = bookWork.batches \ {Batch}
    PROVE  BatchesInv'
<1>1. Chapter' = Chapter /\ Opened /\ ~Planned' /\ ~Translated'
  BY ChapterKept DEF Translated, Opened, Planned, WorkGoes
<1>2. \A b : /\ IsBatch(b)' <=> IsBatch(b)
             /\ HasText(b)' <=> HasText(b)
             /\ HasNone(b)' <=> HasNone(b)
  BY <1>1 DEF IsBatch, HasText, HasNone
<1>3. \A b \in bookWork'.batches : b \in bookWork.batches /\ b # Batch
  OBVIOUS
<1>4. QED
  BY <1>1, <1>2, <1>3 DEF BatchesInv, WorkGoes

LEMMA BatchesStep ==
    ASSUME BookWorkInv, CountersInv, ReceiptsInv, ResultsInv, TextsInv, CopyInv, BatchesInv, [BookNext]_bookVars
    PROVE  BatchesInv'
<1> USE DEF Opened, Planned, Translated
<1>1. CASE UNCHANGED <<bookText, bookWork>>
  BY <1>1 DEF BatchesInv, IsBatch, HasText, HasNone, Chapter, Batch
<1>2. CASE bookWork'.pc \in {"idle", "chapter"}
  BY <1>2 DEF BatchesInv
<1>3. CASE UNCHANGED bookVars
  BY <1>1, <1>3 DEF bookVars, bookFormal
<1>4. CASE \E settings \in Settings : StartBook(settings)
  BY <1>2, <1>4, StartsWork DEF WorkGoes
<1>5. CASE OpenChapter
  <2>1. CASE Length[Chapter] = 0
    BY <1>2, <1>5, <2>1, OpensWork DEF WorkGoes
  <2>2. CASE Length[Chapter] # 0
    <3>1. /\ bookWork'.pc = "batch" /\ KeepsChapter /\ UNCHANGED bookText
          /\ bookWork'.batches = ResumeBatches(bookText[Chapter], bookWork.size)
      BY <1>5, <2>2, OpensWork DEF OpenChapter, WorkGoes
    <3>2. Chapter' = Chapter /\ Working /\ bookWork.todo # {} /\ bookWork.size \in Nat \ {0}
      BY <1>5, <3>1, ChapterKept DEF OpenChapter, Working, BookWorkInv
    <3>3. PICK texts, size : texts = bookText[Chapter] /\ size = bookWork.size
      OBVIOUS
    <3>4. texts \in Seq(Nat) /\ Len(texts) = Length[Chapter] /\ size \in Nat \ {0} /\ Length[Chapter] \in Nat
      BY <3>2, <3>3, ChapterTexts
    <3>5. /\ bookWork'.batches = BatchesFrom(ResumeBegins(texts, size), texts)
          /\ AreBeginnings(ResumeBegins(texts, size), Len(texts))
          /\ \A b \in bookWork'.batches : \A s \in Span(b) : s \in 1..Len(texts) /\ (texts[s] # NoText <=> b.done)
      BY <3>1, <3>3, <3>4, ResumedBatches
    <3>6. /\ \A b \in bookWork'.batches :
                /\ b.start \in 1..Len(texts) /\ b.count \in Nat \ {0}
                /\ b.start + b.count - 1 <= Len(texts) /\ b.done \in BOOLEAN
          /\ \A b, d \in bookWork'.batches : b # d => b.start + b.count <= d.start \/ d.start + d.count <= b.start
      BY <3>4, <3>5, BatchesCover
    <3>7. \A b \in bookWork'.batches : IsBatch(b)' /\ (b.done => HasText(b)') /\ (~b.done => HasNone(b)')
      BY <3>1, <3>2, <3>3, <3>4, <3>5, <3>6 DEF IsBatch, HasText, HasNone
    <3>8. QED BY <3>1, <3>6, <3>7 DEF BatchesInv
  <2>3. QED BY <2>1, <2>2
<1>6. CASE SkipBatch
  <2>1. /\ UNCHANGED bookText /\ bookWork.pc = "batch" /\ bookWork.batches # {} /\ Batch.done
        /\ bookWork'.pc = "align" /\ KeepsChapter /\ KeepsBatches
    BY <1>6, WorkMoves DEF SkipBatch, bookFormal, GoesOnTo, WorkGoes
  <2>2. HasText(Batch)
    BY <2>1, LeastBatch DEF BatchesInv
  <2>3. QED BY <2>1, <2>2, BatchesStay
<1>7. CASE PlanBatch
  <2>1. /\ UNCHANGED bookText /\ bookWork.pc = "batch" /\ bookWork.batches # {} /\ ~Batch.done
        /\ bookWork'.pc \in {"request", "reuse"} /\ KeepsChapter /\ KeepsBatches
        /\ bookWork'.plan = CapturePlan(bookWork'.snapshot)
    BY <1>7, PlansWork DEF PlanBatch, bookFormal, WorkGoes
  <2>2. /\ bookWork'.plan.chapter = Chapter /\ bookWork'.plan.start = Batch.start
        /\ bookWork'.plan.count = Batch.count
    BY <2>1 DEF CapturePlan
  <2>3. QED BY <2>1, <2>2, BatchesStay
<1>8. CASE TranslateBatch
  <2>1. /\ UNCHANGED bookText /\ bookWork.pc = "request" /\ bookWork'.pc = "save"
        /\ KeepsChapter /\ KeepsBatches /\ bookWork'.plan = bookWork.plan
    BY <1>8, TranslatesWork DEF TranslateBatch, bookFormal, WorkGoes, KeepsPlan
  <2>2. QED BY <2>1, BatchesStay DEF BatchesInv
<1>9. CASE ReuseResults \/ RecoverSynthesis \/ SynthesisAnswers
  <2>1. /\ UNCHANGED bookText /\ bookWork.pc \in {"reuse", "synthesis", "synthesizing"}
    BY <1>9 DEF ReuseResults, RecoverSynthesis, SynthesisAnswers, bookFormal
  <2>2. /\ KeepsChapter /\ KeepsBatches /\ bookWork'.plan = bookWork.plan
        /\ bookWork'.pc \in {"publish", "drafts", "synthesizing", "result"}
    BY <1>9, PrecisionWork DEF WorkGoes, KeepsPlan
  <2>3. QED BY <2>1, <2>2, BatchesStay DEF BatchesInv
<1>10. CASE WriteResult \/ PreparePublication \/ MarkPublished
  <2>1. /\ UNCHANGED bookText /\ bookWork.pc \in {"result", "publish", "mark"}
    BY <1>10 DEF WriteResult, PreparePublication, MarkPublished, bookFormal
  <2>2. /\ KeepsChapter /\ KeepsBatches /\ bookWork'.plan = bookWork.plan
        /\ \/ bookWork'.pc \in {"publish", "merge"} /\ bookWork.pc # "mark"
           \/ bookWork'.pc = "align" /\ bookWork.pc = "mark"
    BY <1>10, WorkMoves DEF GoesOnTo, WorkGoes, KeepsPlan, WriteResult, PreparePublication, MarkPublished
  <2>3. QED BY <2>1, <2>2, BatchesStay DEF BatchesInv
<1>11. CASE DraftsEnd
  <2>1. UNCHANGED bookText /\ bookWork.pc = "drafts"
    BY <1>11 DEF DraftsEnd, bookFormal
  <2>2. CASE GoesOnTo("synthesis")
    <3>1. KeepsChapter /\ KeepsBatches /\ bookWork'.plan = bookWork.plan /\ bookWork'.pc = "synthesis"
      BY <2>2 DEF GoesOnTo, WorkGoes, KeepsPlan
    <3>2. QED BY <2>1, <3>1, BatchesStay DEF BatchesInv
  <2>3. QED BY <1>2, <1>11, <2>2, PrecisionWork DEF IdleWork
<1>12. ASSUME NEW text, Fills(text) PROVE BatchesInv'
  <2>1. /\ HasText(Batch)'
        /\ \A b \in bookWork.batches \ {Batch} : (HasText(b) => HasText(b)') /\ (HasNone(b) => HasNone(b)')
        /\ Chapter' = Chapter /\ Batch' = Batch
    BY <1>12, FillsBatch
  <2>2. /\ bookWork.pc \in {"save", "merge"} /\ bookWork'.pc = (IF bookWork.pc = "save" THEN "align" ELSE "mark")
        /\ bookWork'.batches = bookWork.batches /\ bookWork'.plan = bookWork.plan
    BY <1>12 DEF Fills, WorkGoes, KeepsBatches, KeepsPlan
  <2>3. \A b : IsBatch(b)' <=> IsBatch(b)
    BY <2>1 DEF IsBatch
  <2>4. ~Batch.done /\ bookWork.batches # {} /\ Batch \in bookWork.batches
    BY <2>2, LeastBatch DEF BatchesInv
  <2>5. \A b \in bookWork.batches : b.done => HasText(b)'
    BY <2>1, <2>2, <2>4 DEF BatchesInv
  <2>6. \A b \in bookWork.batches : ~b.done /\ b # Batch => HasNone(b)'
    BY <2>1, <2>2 DEF BatchesInv
  <2>7. QED BY <2>1, <2>2, <2>3, <2>4, <2>5, <2>6 DEF BatchesInv
<1>13. CASE SaveBatch \/ MergeBatch
  <2>1. bookWork.pc \in {"save", "merge"} /\ bookWork'.pc \in {"align", "mark", "idle"}
    BY <1>13, WorkMoves, PrecisionWork DEF SaveBatch, MergeBatch, GoesOnTo, WorkGoes, IdleWork
  <2>2. CASE bookWork'.pc = "idle"
    BY <1>2, <2>2
  <2>3. CASE bookWork'.pc # "idle" /\ UNCHANGED bookText
    <3>1. /\ KeepsChapter /\ KeepsBatches /\ KeepsPlan
      BY <1>13, <2>3, WorkMoves, PrecisionWork DEF GoesOnTo, IdleWork
    <3>2. Working /\ bookWork.todo # {} /\ bookWork.batches # {} /\ ~Batch.done /\ Span(bookWork.plan) = Span(Batch)
      BY <2>1 DEF BookWorkInv, Working, BatchesInv, Span
    <3>3. /\ Chapter \in 1..Chapters /\ bookText[Chapter] \in Seq(Nat)
          /\ DOMAIN bookText[Chapter] = 1..Length[Chapter] /\ DOMAIN bookText = 1..Chapters
      BY <3>2, ChapterTexts DEF TextsInv
    <3>4. PICK text : /\ text >= 2 /\ text \in Nat
                      /\ bookText'[Chapter] = Filled(bookText[Chapter], bookWork.plan, text)
      <4>1. CASE SaveBatch
        <5>1. bookText'[Chapter] = bookWork.copy /\ bookWork.pc = "save"
          BY <3>3, <4>1 DEF SaveBatch, SaveCopy
        <5>2. bookDraws + 1 \in Nat /\ bookDraws + 1 >= 2
          BY <5>1 DEF CopyInv, ReceiptsInv
        <5>3. QED BY <5>1, <5>2 DEF CopyInv
      <4>2. CASE MergeBatch
        <5>1. bookText'[Chapter] = Filled(bookText[Chapter], bookWork.plan, bookWork.text) /\ bookWork.pc = "merge"
          BY <2>3, <3>3, <4>2, PrecisionWork DEF IdleWork, MergeBatch
        <5>2. PICK r : r = [plan |-> bookWork.plan, stage |-> "synthesis", text |-> bookWork.text]
          OBVIOUS
        <5>3. r \in bookCalls /\ r.stage = "synthesis" /\ r.text = bookWork.text
          BY <5>1, <5>2 DEF ResultsInv, IsSynthesis
        <5>4. bookWork.text \in 2..(bookDraws + 1) /\ bookDraws \in Nat
          BY <5>3 DEF ReceiptsInv, IsReceipt
        <5>5. QED BY <5>1, <5>4
      <4>3. QED BY <1>13, <4>1, <4>2
    <3>5. HasText(Batch)
      <4>1. Batch \in bookWork.batches /\ IsBatch(Batch)
        BY <2>1, <3>2, LeastBatch
      <4>2. \A s \in Span(Batch) : s \in 1..Length[Chapter]
        BY <2>1, <4>1, SpanWithin
      <4>3. QED BY <2>3, <3>2, <3>3, <3>4, <4>2 DEF HasText, Filled, NoText
    <3>6. QED BY <2>1, <2>3, <3>1, <3>2, <3>5, BatchesStay DEF BatchesInv, KeepsPlan
  <2>4. CASE ~UNCHANGED bookText
    <3>1. PICK text : Fills(text)
      <4>1. ~Edits
        BY <2>1 DEF Edits, Working
      <4>2. QED BY <2>4, <4>1, TextsStep
    <3>2. QED BY <1>12, <3>1
  <2>5. QED BY <2>2, <2>3, <2>4
<1>14. CASE AlignBatch \/ ExtractTerms \/ LogExtraction \/ ExtractChapter \/ CloseChapter
  <2>1. bookWork.pc \in {"align", "extract", "event", "batch", "close", "closing"}
    BY <1>14 DEF AlignBatch, ExtractTerms, LogExtraction, ExtractChapter, CloseChapter
  <2>2. UNCHANGED bookText
    <3>1. ~Edits /\ \A text : ~Fills(text)
      BY <2>1 DEF Edits, Fills, Working
    <3>2. QED BY <3>1, TextsStep
  <2>3. CASE AlignBatch
    <3>1. KeepsChapter /\ bookWork.pc = "align"
      BY <2>3, BatchEndsWork DEF AlignBatch
    <3>2. CASE WorkGoes("extract") /\ KeepsBatches
      BY <2>2, <3>1, <3>2, BatchesStay DEF WorkGoes, BatchesInv
    <3>3. CASE WorkGoes("batch") /\ bookWork'.batches = bookWork.batches \ {Batch}
      BY <2>2, <3>1, <3>3, BatchesLeft
    <3>4. QED BY <2>3, <3>2, <3>3, BatchEndsWork
  <2>4. CASE LogExtraction
    <3>1. KeepsChapter /\ bookWork.pc = "event" /\ WorkGoes("batch") /\ bookWork'.batches = bookWork.batches \ {Batch}
      BY <2>4, BatchEndsWork DEF LogExtraction
    <3>2. QED BY <2>2, <3>1, BatchesLeft
  <2>5. CASE ExtractTerms
    <3>1. KeepsChapter /\ KeepsBatches /\ bookWork.pc = "extract" /\ bookWork'.pc = "event"
      BY <2>5, WorkMoves DEF ExtractTerms, GoesOnTo, WorkGoes
    <3>2. QED BY <2>2, <3>1, BatchesStay DEF BatchesInv
  <2>6. CASE ExtractChapter
    <3>1. /\ KeepsChapter /\ KeepsBatches /\ bookWork.pc = "batch" /\ bookWork'.pc = "close"
          /\ bookWork.batches = {}
      BY <2>6, WorkMoves DEF ExtractChapter, GoesOnTo, WorkGoes
    <3>2. QED BY <2>2, <3>1, BatchesStay
  <2>7. CASE CloseChapter
    <3>1. CASE bookWork.pc = "close" /\ GoesOnTo("closing")
      <4>1. KeepsChapter /\ KeepsBatches /\ bookWork'.pc = "closing" /\ bookWork.batches = {}
        BY <3>1 DEF GoesOnTo, WorkGoes, BatchesInv
      <4>2. QED BY <2>2, <3>1, <4>1, BatchesStay
    <3>2. QED BY <1>2, <2>7, <3>1, BatchEndsWork DEF WorkGoes
  <2>8. QED BY <1>14, <2>3, <2>4, <2>5, <2>6, <2>7
<1>15. CASE EndBook \/ InvocationFails
  BY <1>2, <1>15, WorkIsOver DEF IdleWork
<1>16. CASE \E d \in DraftIds : DraftAnswers(d) \/ DraftFails(d) \/ BindDraft(d)
  BY <1>1, <1>16 DEF DraftAnswers, DraftFails, BindDraft, bookFormal
<1>17. CASE \E c \in 1..Chapters : \E s \in Segments(c) : EditSegment(c, s)
  BY <1>2, <1>17 DEF EditSegment, Working
<1>18. QED
  BY <1>3, <1>4, <1>5, <1>6, <1>7, <1>8, <1>9, <1>10, <1>11, <1>13, <1>14, <1>15, <1>16, <1>17
  DEF BookNext, BookStep, PrecisionStep


\* A step of the program changes no text that is there.
LEMMA TextStays ==
    ASSUME BookWorkInv, CountersInv, ReceiptsInv, ResultsInv, TextsInv, CopyInv, BatchesInv, [BookNext]_bookVars,
           NEW c \in 1..Chapters, NEW s \in Segments(c), bookText[c][s] # NoText, bookEdits' = bookEdits
    PROVE  bookText'[c][s] = bookText[c][s]
<1>1. CASE UNCHANGED bookText
  BY <1>1
<1>2. ASSUME NEW text, Fills(text) PROVE bookText'[c][s] = bookText[c][s]
  <2>1. c # Chapter \/ s \notin Span(Batch) => bookText'[c][s] = bookText[c][s]
    <3>1. s \in Nat
      BY DEF Segments
    <3>2. QED BY <1>2, <3>1, FillsBatch
  <2>2. HasNone(Batch)
    <3>1. bookWork.pc \in {"save", "merge"}
      BY <1>2 DEF Fills
    <3>2. Opened /\ Planned /\ ~Translated
      BY <3>1 DEF Opened, Planned, Translated
    <3>3. QED BY <3>2, LeastBatch DEF BatchesInv
  <2>3. QED BY <2>1, <2>2 DEF HasNone
<1>3. QED BY <1>1, <1>2, TextsStep DEF Edits


-----------------------------------------------------------------------------
(* TranslationBatches: the glossary, the status of chapters and the plans   *)

\* What changes what, of what is kept between invocations.
LEMMA FilesStep ==
    ASSUME BookWorkInv, [BookNext]_bookVars
    PROVE  /\ UNCHANGED bookTerms \/ ExtractTerms \/ ExtractChapter
           /\ UNCHANGED bookKeys \/ LogExtraction
           /\ UNCHANGED bookStatus \/ OpenChapter \/ CloseChapter
           /\ UNCHANGED bookPublications \/ OpenChapter \/ PreparePublication \/ MarkPublished
           /\ UNCHANGED bookCalls \/ SynthesisAnswers \/ \E d \in DraftIds : DraftAnswers(d)
           /\ UNCHANGED bookSettings \/ \E settings \in Settings : StartBook(settings)
           /\ bookVaried => bookVaried'
<1> USE DEF bookGlossary, bookFormal, bookPrecision, bookGhosts
<1>1. CASE UNCHANGED bookVars
  BY <1>1 DEF bookVars
<1>2. CASE OrdinaryStep
  <2>1. UNCHANGED bookCalls /\ (UNCHANGED bookPublications \/ OpenChapter)
    BY <1>2, OrdinarySteps
  <2>2. CASE \E settings \in Settings : StartBook(settings)
    BY <2>1, <2>2 DEF StartBook
  <2>3. CASE OpenChapter
    BY <2>1, <2>3 DEF OpenChapter
  <2>4. CASE SkipBatch \/ PlanBatch \/ TranslateBatch \/ SaveBatch \/ AlignBatch \/ EndBook
    BY <2>1, <2>4 DEF SkipBatch, PlanBatch, TranslateBatch, SaveBatch, AlignBatch, EndBook
  <2>5. CASE ExtractTerms \/ LogExtraction \/ ExtractChapter \/ CloseChapter
    BY <2>1, <2>5 DEF ExtractTerms, LogExtraction, ExtractChapter, CloseChapter
  <2>6. CASE \E c \in 1..Chapters : \E s \in Segments(c) : EditSegment(c, s)
    BY <2>1, <2>6 DEF EditSegment
  <2>7. QED BY <1>2, <2>2, <2>3, <2>4, <2>5, <2>6 DEF OrdinaryStep
<1>3. ASSUME NEW d \in DraftIds, DraftAnswers(d) \/ DraftFails(d) \/ BindDraft(d)
      PROVE  /\ UNCHANGED <<bookTerms, bookKeys, bookStatus, bookPublications, bookSettings, bookVaried>>
             /\ UNCHANGED bookCalls \/ DraftAnswers(d)
  BY <1>3 DEF DraftAnswers, DraftFails, BindDraft
<1>4. CASE \/ ReuseResults \/ DraftsEnd \/ RecoverSynthesis \/ SynthesisAnswers \/ WriteResult
           \/ PreparePublication \/ MergeBatch \/ MarkPublished \/ InvocationFails
  BY <1>4 DEF ReuseResults, DraftsEnd, RecoverSynthesis, SynthesisAnswers, WriteResult,
     PreparePublication,
     MergeBatch, MarkPublished, InvocationFails
<1>5. QED BY <1>1, <1>2, <1>3, <1>4, BookSteps

\* The moves of an invocation: it stays, leaves its chapter, opens one, proceeds with a
\* batch or turns to the next.
Stays == UNCHANGED bookWork /\ (bookWork.pc \in {"idle", "drafts"} \/ UNCHANGED bookVars)
Leaves == bookWork'.pc \in {"idle", "chapter"}
Opens ==
    /\ OpenChapter /\ WorkGoes("batch") /\ KeepsChapter /\ Length[Chapter] # 0
    /\ bookWork'.copy = bookText[Chapter]
    /\ bookWork'.batches = ResumeBatches(bookText[Chapter], bookWork.size)
    /\ bookWork'.keys = {k \in bookKeys : k[1] = Chapter}
    /\ bookWork'.snapshot = bookTerms /\ bookWork'.stale = FALSE
Proceeds ==
    /\ Opened /\ Opened' /\ KeepsChapter /\ KeepsBatches
    /\ PlanBatch \/ (KeepsTerms /\ KeepsPlan)
    /\ Planned' => Planned \/ PlanBatch
    /\ bookWork'.pc \in {"request", "reuse"} => PlanBatch
    /\ bookWork'.pc = "save" => TranslateBatch
    /\ bookWork'.pc = "mark" => MergeBatch
    /\ bookWork.pc = "mark" => MarkPublished
    /\ bookWork'.pc = "event" => ExtractTerms
    /\ bookWork'.pc = "close" => ExtractChapter
    /\ bookWork'.pc = "closing" <=> bookWork.pc = "close"
    /\ bookWork.pc \notin {"event", "closing"}
Turns ==
    /\ Opened /\ KeepsChapter /\ WorkGoes("batch") /\ bookWork'.batches = bookWork.batches \ {Batch}
    /\ \/ AlignBatch /\ Batch.done /\ Key \in bookWork.keys /\ bookWork'.keys = bookWork.keys /\ KeepsTerms
       \/ LogExtraction /\ bookWork'.keys = bookWork.keys \cup {Key} /\ bookWork'.stale = TRUE

LEMMA WorkSteps ==
    ASSUME BookWorkInv, [BookNext]_bookVars
    PROVE  Stays \/ Leaves \/ Opens \/ Proceeds \/ Turns
<1> USE DEF Opened, Planned
<1>1. CASE UNCHANGED bookVars
  BY <1>1 DEF Stays, bookVars
<1>2. CASE \E settings \in Settings : StartBook(settings)
  BY <1>2, StartsWork DEF Leaves, WorkGoes
<1>3. CASE OpenChapter
  BY <1>3, OpensWork DEF Leaves, Opens, WorkGoes
<1>4. CASE SkipBatch \/ SaveBatch \/ WriteResult \/ PreparePublication \/ MarkPublished \/ ExtractTerms
           \/ ExtractChapter
  <2>1. \/ bookWork.pc = "batch" /\ GoesOnTo("align")
        \/ bookWork.pc = "save" /\ GoesOnTo("align")
        \/ bookWork.pc = "result" /\ GoesOnTo("publish")
        \/ bookWork.pc = "publish" /\ GoesOnTo("merge")
        \/ bookWork.pc = "mark" /\ GoesOnTo("align") /\ MarkPublished
        \/ bookWork.pc = "extract" /\ GoesOnTo("event") /\ ExtractTerms
        \/ bookWork.pc = "batch" /\ GoesOnTo("close") /\ ExtractChapter
    BY <1>4, WorkMoves DEF SkipBatch, SaveBatch, WriteResult, PreparePublication, MarkPublished,
       ExtractTerms, ExtractChapter
  <2>2. KeepsChapter /\ KeepsBatches /\ KeepsTerms /\ KeepsPlan
    BY <2>1 DEF GoesOnTo
  <2>3. QED BY <2>1, <2>2 DEF GoesOnTo, WorkGoes, Proceeds
<1>5. CASE PlanBatch
  <2>1. bookWork.pc = "batch" /\ bookWork'.pc \in {"request", "reuse"} /\ KeepsChapter /\ KeepsBatches
    BY <1>5, PlansWork DEF PlanBatch, WorkGoes
  <2>2. QED BY <1>5, <2>1 DEF Proceeds
<1>6. CASE TranslateBatch
  <2>1. bookWork.pc = "request" /\ bookWork'.pc = "save" /\ KeepsChapter /\ KeepsBatches /\ KeepsTerms /\ KeepsPlan
    BY <1>6, TranslatesWork DEF TranslateBatch, WorkGoes
  <2>2. QED BY <1>6, <2>1 DEF Proceeds
<1>7. CASE ReuseResults \/ RecoverSynthesis \/ SynthesisAnswers
  <2>1. bookWork.pc \in {"reuse", "synthesis", "synthesizing"}
    BY <1>7 DEF ReuseResults, RecoverSynthesis, SynthesisAnswers
  <2>2. /\ KeepsChapter /\ KeepsBatches /\ KeepsTerms /\ KeepsPlan
        /\ bookWork'.pc \in {"publish", "drafts", "synthesizing", "result"}
    BY <1>7, PrecisionWork DEF WorkGoes
  <2>3. QED BY <2>1, <2>2 DEF Proceeds
<1>8. CASE DraftsEnd
  <2>1. CASE GoesOnTo("synthesis")
    <3>1. bookWork.pc = "drafts"
      BY <1>8 DEF DraftsEnd
    <3>2. QED BY <2>1, <3>1 DEF GoesOnTo, WorkGoes, Proceeds
  <2>2. QED BY <1>8, <2>1, PrecisionWork DEF IdleWork, Leaves
<1>9. CASE MergeBatch
  <2>1. CASE WorkGoes("mark") /\ KeepsChapter /\ KeepsBatches /\ KeepsTerms /\ KeepsPlan
    <3>1. bookWork.pc = "merge"
      BY <1>9 DEF MergeBatch
    <3>2. QED BY <1>9, <2>1, <3>1 DEF WorkGoes, Proceeds
  <2>2. QED BY <1>9, <2>1, PrecisionWork DEF IdleWork, Leaves
<1>10. CASE AlignBatch
  <2>1. KeepsChapter /\ KeepsCopy /\ KeepsTerms /\ bookWork'.keys = bookWork.keys /\ bookWork.pc = "align"
    BY <1>10, BatchEndsWork DEF AlignBatch
  <2>2. CASE WorkGoes("extract") /\ KeepsBatches
    <3>1. bookWork'.plan = bookWork.plan
      BY <1>10, <2>2, WorkGoesOn DEF AlignBatch, WorkGoes, NextBatch, BookWorkInv, Working, IsWork
    <3>2. QED BY <2>1, <2>2, <3>1 DEF WorkGoes, Proceeds, KeepsPlan
  <2>3. QED BY <1>10, <2>1, <2>2, BatchEndsWork DEF Turns
<1>11. CASE LogExtraction
  <2>1. bookWork.pc = "event"
    BY <1>11 DEF LogExtraction
  <2>2. QED BY <1>11, <2>1, BatchEndsWork DEF Turns
<1>12. CASE CloseChapter
  <2>1. CASE bookWork.pc = "close" /\ GoesOnTo("closing")
    BY <2>1 DEF GoesOnTo, WorkGoes, Proceeds
  <2>2. QED BY <1>12, <2>1, BatchEndsWork DEF WorkGoes, Leaves
<1>13. CASE EndBook \/ InvocationFails
  BY <1>13, WorkIsOver DEF IdleWork, Leaves
<1>14. CASE \E d \in DraftIds : DraftAnswers(d) \/ DraftFails(d) \/ BindDraft(d)
  BY <1>14 DEF DraftAnswers, DraftFails, BindDraft, Stays
<1>15. CASE \E c \in 1..Chapters : \E s \in Segments(c) : EditSegment(c, s)
  BY <1>15 DEF EditSegment, Working, Stays
<1>16. QED
  BY <1>1, <1>2, <1>3, <1>4, <1>5, <1>6, <1>7, <1>8, <1>9, <1>10, <1>11, <1>12, <1>13, <1>14, <1>15
  DEF BookNext, BookStep, PrecisionStep


\* A segment that has a text goes on having one.
LEMMA TextsRemain ==
    ASSUME BookWorkInv, CountersInv, ReceiptsInv, ResultsInv, TextsInv, CopyInv, BatchesInv, [BookNext]_bookVars,
           NEW c \in 1..Chapters, NEW s \in Segments(c), bookText[c][s] # NoText
    PROVE  bookText'[c][s] # NoText
<1>1. CASE UNCHANGED bookText \/ \E text : Fills(text)
  <2>1. bookEdits' = bookEdits \/ UNCHANGED bookText
    BY <1>1 DEF Fills, bookGhosts
  <2>2. QED BY <2>1, TextStays
<1>2. CASE Edits
  <2>0. PICK e \in 1..Chapters : \E n \in Segments(e) : bookText' = [bookText EXCEPT ![e][n] = UserText]
    BY <1>2 DEF Edits
  <2>1. PICK n \in Segments(e) : bookText' = [bookText EXCEPT ![e][n] = UserText]
    BY <2>0
  <2>2. bookText[e] \in Seq(Nat) /\ Len(bookText[e]) = Length[e] /\ DOMAIN bookText = 1..Chapters
    BY DEF TextsInv
  <2>3. DOMAIN bookText[e] = Segments(e)
    BY <2>2, LenProperties DEF Segments
  <2>4. QED BY <2>1, <2>2, <2>3 DEF UserText, NoText
<1>3. QED BY <1>1, <1>2, TextsStep

\* Extracted terms belong to segments that have a text; those of a chapter, to one whose
\* segments all have.
IsTerm(t) ==
    /\ t = <<t[1], t[2]>> /\ t[1] \in 1..Chapters /\ t[2] \in 0..Length[t[1]]
    /\ t[2] # 0 => bookText[t[1]][t[2]] # NoText
    /\ t[2] = 0 => Length[t[1]] # 0 /\ \A s \in Segments(t[1]) : bookText[t[1]][s] # NoText
TermsInv == \A t \in bookTerms : IsTerm(t)

\* Every segment of the chapter is in a batch that is left, or its terms are extracted;
\* then a chapter that is done has all of its terms.
IsComplete(c) ==
    /\ \A s \in Segments(c) : <<c, s>> \in bookTerms
    /\ Length[c] # 0 => <<c, 0>> \in bookTerms
CoverInv ==
    /\ Opened => /\ Length[Chapter] # 0
                 /\ \A s \in Segments(Chapter) :
                       (\E b \in bookWork.batches : s \in Span(b)) \/ <<Chapter, s>> \in bookTerms
    /\ bookWork.pc = "event" => \A s \in Span(Batch) : <<Chapter, s>> \in bookTerms
    /\ bookWork.pc \in {"close", "closing"} => <<Chapter, 0>> \in bookTerms

\* A batch with an event has its terms.
IsKey(k) ==
    /\ k[1] \in 1..Chapters /\ k[2] \in Nat \ {0} /\ k[3] \in Nat \ {0} /\ k[2] + k[3] - 1 <= Length[k[1]]
    /\ \A s \in k[2]..(k[2] + k[3] - 1) : <<k[1], s>> \in bookTerms
BookKeysInv == (\A k \in bookKeys : IsKey(k)) /\ (Opened => bookWork.keys \subseteq bookKeys)

\* Chapters that are not left to a run of the whole book are done; one with a batch to
\* translate is not.
StatusInv ==
    /\ bookStatus \in [1..Chapters -> {"pending", "done"}]
    /\ \A c \in 1..Chapters : bookStatus[c] = "done" => IsComplete(c)
    /\ Working /\ bookWork.whole => \A c \in 1..Chapters : c \in bookWork.todo \/ bookStatus[c] = "done"
    /\ Planned => bookStatus[Chapter] # "done"

\* The glossary in memory is the one on disk, unless it is known to be stale.
SnapshotInv ==
    Opened /\ bookWork.pc \notin {"event", "close", "closing"} /\ ~bookWork.stale =>
        bookWork.snapshot = bookTerms

LEMMA TermsStep ==
    ASSUME BookWorkInv, CountersInv, ReceiptsInv, ResultsInv, TextsInv, CopyInv, BatchesInv, TermsInv, CoverInv,
           [BookNext]_bookVars
    PROVE  TermsInv' /\ bookTerms \subseteq bookTerms'
<1>1. ASSUME NEW t, IsTerm(t) PROVE IsTerm(t)'
  <2>1. PICK c, s : t = <<c, s>> /\ c \in 1..Chapters /\ s \in 0..Length[c] /\ t[1] = c /\ t[2] = s
    BY <1>1 DEF IsTerm
  <2>2. s # 0 => s \in Segments(c)
    <3>1. Length[c] \in Nat
      BY <2>1, BookAssumption
    <3>2. QED BY <2>1, <3>1 DEF Segments
  <2>3. s # 0 => bookText'[c][s] # NoText
    BY <1>1, <2>1, <2>2, TextsRemain DEF IsTerm
  <2>4. s = 0 => Length[c] # 0 /\ \A n \in Segments(c) : bookText'[c][n] # NoText
    BY <1>1, <2>1, TextsRemain DEF IsTerm
  <2>5. QED BY <2>1, <2>3, <2>4 DEF IsTerm
<1>2. CASE UNCHANGED bookTerms
  BY <1>1, <1>2 DEF TermsInv
<1>3. CASE ExtractTerms
  <2>1. /\ bookWork.pc = "extract" /\ Working /\ Opened /\ bookWork.todo # {}
        /\ bookTerms' = bookTerms \cup {<<Chapter, s>> : s \in Span(Batch)}
    BY <1>3 DEF ExtractTerms, Working, Opened, BookWorkInv
  <2>2. HasText(Batch) /\ IsBatch(Batch) /\ Chapter \in 1..Chapters /\ Length[Chapter] \in Nat
    BY <2>1, LeastBatch, ChapterTexts DEF BatchesInv, Translated
  <2>3. ASSUME NEW s \in Span(Batch) PROVE IsTerm(<<Chapter, s>>)
    <3>1. PICK t : t = <<Chapter, s>>
      OBVIOUS
    <3>2. s \in 1..Length[Chapter] /\ bookText[Chapter][s] # NoText
      BY <2>1, <2>2, SpanWithin DEF HasText
    <3>3. t[1] = Chapter /\ t[2] = s /\ t = <<t[1], t[2]>>
      BY <3>1
    <3>4. s # 0 /\ s \in 0..Length[Chapter]
      BY <2>2, <3>2
    <3>5. QED BY <2>2, <3>1, <3>2, <3>3, <3>4 DEF IsTerm
  <2>4. QED BY <1>1, <2>1, <2>3 DEF TermsInv
<1>4. CASE ExtractChapter
  <2>1. /\ bookWork.pc = "batch" /\ Working /\ Opened /\ bookWork.todo # {} /\ bookWork.batches = {}
        /\ bookTerms' = bookTerms \cup {<<Chapter, 0>>}
    BY <1>4 DEF ExtractChapter, Working, Opened, BookWorkInv
  <2>2. Chapter \in 1..Chapters /\ Length[Chapter] # 0 /\ Length[Chapter] \in Nat
    BY <2>1, ChapterTexts DEF CoverInv
  <2>3. ASSUME NEW s \in Segments(Chapter) PROVE bookText[Chapter][s] # NoText
    <3>1. PICK t : t = <<Chapter, s>>
      OBVIOUS
    <3>2. t \in bookTerms /\ t[1] = Chapter /\ t[2] = s /\ s # 0
      BY <2>1, <2>2, <3>1 DEF CoverInv, Segments
    <3>3. QED BY <3>2 DEF TermsInv, IsTerm
  <2>4. IsTerm(<<Chapter, 0>>)
    <3>1. PICK t : t = <<Chapter, 0>>
      OBVIOUS
    <3>2. t = <<t[1], t[2]>> /\ t[1] = Chapter /\ t[2] = 0
      BY <3>1
    <3>3. t[2] \in 0..Length[Chapter]
      BY <2>2, <3>2
    <3>4. QED BY <2>2, <2>3, <3>1, <3>2, <3>3 DEF IsTerm
  <2>5. QED BY <1>1, <2>1, <2>4 DEF TermsInv
<1>5. QED BY <1>2, <1>3, <1>4, FilesStep

LEMMA CoverStep ==
    ASSUME BookWorkInv, CountersInv, ReceiptsInv, ResultsInv, TextsInv, CopyInv, BatchesInv, TermsInv, CoverInv,
           BookKeysInv, [BookNext]_bookVars
    PROVE  CoverInv'
<1>0. bookTerms \subseteq bookTerms'
  BY TermsStep
<1>1. CASE Stays
  BY <1>0, <1>1 DEF Stays, CoverInv, Opened, Chapter, Batch
<1>2. CASE Leaves
  BY <1>2 DEF Leaves, CoverInv, Opened
<1>3. CASE Opens
  <2>1. Chapter' = Chapter /\ Working /\ bookWork.todo # {} /\ bookWork.size \in Nat \ {0} /\ bookWork'.pc = "batch"
        /\ Length[Chapter] # 0
    BY <1>3, ChapterKept DEF Opens, OpenChapter, Working, BookWorkInv, WorkGoes
  <2>2. PICK texts, size : texts = bookText[Chapter] /\ size = bookWork.size
    OBVIOUS
  <2>3. texts \in Seq(Nat) /\ Len(texts) = Length[Chapter] /\ size \in Nat \ {0}
    BY <2>1, <2>2, ChapterTexts
  <2>4. /\ bookWork'.batches = BatchesFrom(ResumeBegins(texts, size), texts)
        /\ AreBeginnings(ResumeBegins(texts, size), Len(texts))
    BY <1>3, <2>2, <2>3, ResumedBatches DEF Opens
  <2>5. \A s \in 1..Length[Chapter] : \E b \in bookWork'.batches : s \in Span(b)
    BY <2>3, <2>4, BatchesCover
  <2>6. QED BY <2>1, <2>5 DEF CoverInv, Segments
<1>4. CASE Proceeds
  <2>1. Chapter' = Chapter /\ Batch' = Batch /\ bookWork'.batches = bookWork.batches /\ Opened
    BY <1>4, ChapterKept, BatchKept DEF Proceeds, KeepsBatches
  <2>2. bookWork'.pc = "event" => \A s \in Span(Batch) : <<Chapter, s>> \in bookTerms'
    BY <1>4 DEF Proceeds, ExtractTerms
  <2>3. bookWork'.pc \in {"close", "closing"} => <<Chapter, 0>> \in bookTerms'
    BY <1>0, <1>4 DEF Proceeds, ExtractChapter, CoverInv
  <2>4. QED BY <1>0, <2>1, <2>2, <2>3 DEF CoverInv
<1>5. CASE Turns
  <2>1. /\ Chapter' = Chapter /\ Opened /\ bookWork'.pc = "batch"
        /\ bookWork'.batches = bookWork.batches \ {Batch}
    BY <1>5, ChapterKept DEF Turns, WorkGoes
  <2>2. \A s \in Span(Batch) : <<Chapter, s>> \in bookTerms
    <3>1. CASE LogExtraction
      BY <3>1 DEF LogExtraction, CoverInv
    <3>2. CASE Key \in bookWork.keys
      <4>1. PICK k : k = Key /\ k \in bookKeys
        BY <2>1, <3>2 DEF BookKeysInv
      <4>2. k[1] = Chapter /\ k[2] = Batch.start /\ k[3] = Batch.count
        BY <4>1 DEF Key
      <4>3. QED BY <4>1, <4>2 DEF BookKeysInv, IsKey, Span
    <3>3. QED BY <1>5, <3>1, <3>2 DEF Turns
  <2>3. QED BY <1>0, <2>1, <2>2 DEF CoverInv
<1>6. QED BY <1>1, <1>2, <1>3, <1>4, <1>5, WorkSteps

LEMMA KeysStep ==
    ASSUME BookWorkInv, CountersInv, ReceiptsInv, ResultsInv, TextsInv, CopyInv, BatchesInv, TermsInv, CoverInv,
           BookKeysInv, [BookNext]_bookVars
    PROVE  BookKeysInv'
<1>0. \A k : IsKey(k) => IsKey(k)'
  BY TermsStep DEF IsKey
<1>1. CASE LogExtraction
  <2>1. bookWork.pc = "event" /\ bookKeys' = bookKeys \cup {Key}
    BY <1>1 DEF LogExtraction
  <2>2. IsBatch(Batch) /\ Chapter \in 1..Chapters
    BY <2>1, LeastBatch, ChapterIsLeast DEF BatchesInv, Opened, Translated, BookWorkInv, Working
  <2>3. IsKey(Key)
    <3>1. PICK k : k = Key
      OBVIOUS
    <3>2. k[1] = Chapter /\ k[2] = Batch.start /\ k[3] = Batch.count
      BY <3>1 DEF Key
    <3>3. \A s \in Span(Batch) : <<Chapter, s>> \in bookTerms
      BY <2>1 DEF CoverInv
    <3>4. QED BY <2>2, <3>1, <3>2, <3>3 DEF IsKey, IsBatch, Span
  <2>4. bookWork'.keys = bookWork.keys \cup {Key}
    BY <1>1, BatchEndsWork
  <2>5. QED BY <1>0, <2>1, <2>3, <2>4 DEF BookKeysInv, Opened
<1>2. CASE UNCHANGED bookKeys
  <2>1. Opened' => bookWork'.keys \subseteq bookKeys
    BY <1>1, <1>2, WorkSteps DEF Stays, Leaves, Opens, Proceeds, Turns, BookKeysInv, Opened, KeepsBatches
  <2>2. QED BY <1>0, <1>2, <2>1 DEF BookKeysInv
<1>3. QED BY <1>1, <1>2, FilesStep


\* A segment without extracted terms, or without a text, is in a batch that is left.
LEMMA SegmentsLeft ==
    ASSUME TermsInv, CoverInv, Opened, NEW s \in Segments(Chapter),
           bookText[Chapter][s] = NoText \/ <<Chapter, s>> \notin bookTerms
    PROVE  \E b \in bookWork.batches : s \in Span(b)
<1>1. PICK t : t = <<Chapter, s>>
  OBVIOUS
<1>2. t[1] = Chapter /\ t[2] = s
  BY <1>1
<1>3. s # 0
  BY BookAssumption DEF Segments
<1>4. t \in bookTerms => bookText[Chapter][s] # NoText
  BY <1>2, <1>3 DEF TermsInv, IsTerm
<1>5. QED BY <1>1, <1>4 DEF CoverInv

LEMMA StatusStep ==
    ASSUME BookWorkInv, CountersInv, ReceiptsInv, ResultsInv, TextsInv, CopyInv, BatchesInv, TermsInv, CoverInv,
           BookKeysInv, StatusInv, [BookNext]_bookVars
    PROVE  StatusInv' /\ \A c \in 1..Chapters : bookStatus[c] = "done" => bookStatus'[c] = "done"
<1>0. \A c : IsComplete(c) => IsComplete(c)'
  BY TermsStep DEF IsComplete
<1>1. CASE /\ bookStatus' = [bookStatus EXCEPT ![Chapter] = "done"] /\ Chapter \in 1..Chapters
           /\ IsComplete(Chapter) /\ bookWork'.todo = bookWork.todo \ {Chapter} /\ KeepsRun
           /\ bookWork'.pc = "chapter" /\ Working
  <2>1. ~Planned' /\ Working'
    BY <1>1 DEF Planned, Working
  <2>2. \A c \in 1..Chapters : bookStatus'[c] = IF c = Chapter THEN "done" ELSE bookStatus[c]
    BY <1>1 DEF StatusInv
  <2>3. QED BY <1>0, <1>1, <2>1, <2>2 DEF StatusInv, KeepsRun
<1>2. CASE OpenChapter
  <2>1. Working /\ Chapter \in 1..Chapters
    BY <1>2, ChapterIsLeast DEF OpenChapter, Working
  <2>2. CASE Length[Chapter] = 0
    <3>1. IsComplete(Chapter)
      BY <2>2 DEF IsComplete, Segments
    <3>2. bookStatus' = [bookStatus EXCEPT ![Chapter] = "done"]
      BY <1>2, <2>2 DEF OpenChapter
    <3>3. QED BY <1>1, <1>2, <2>1, <2>2, <3>1, <3>2, OpensWork DEF WorkGoes
  <2>3. CASE Length[Chapter] # 0
    <3>1. UNCHANGED bookStatus /\ bookWork'.pc = "batch" /\ KeepsChapter
      BY <1>2, <2>3, OpensWork DEF OpenChapter, WorkGoes
    <3>2. QED BY <1>0, <2>1, <3>1 DEF StatusInv, KeepsChapter, KeepsRun, Planned
  <2>4. QED BY <2>2, <2>3
<1>3. CASE CloseChapter
  <2>1. CASE bookWork.pc = "closing" /\ bookWork'.pc = "chapter"
    <3>1. Working /\ Opened /\ bookWork.todo # {} /\ bookWork.batches = {}
      BY <2>1 DEF Working, Opened, BookWorkInv, BatchesInv
    <3>2. Chapter \in 1..Chapters
      BY <3>1, ChapterIsLeast
    <3>3. \A s \in Segments(Chapter) : <<Chapter, s>> \in bookTerms
      BY <3>1, SegmentsLeft
    <3>4. IsComplete(Chapter)
      BY <2>1, <3>3 DEF IsComplete, CoverInv
    <3>5. bookStatus' = [bookStatus EXCEPT ![Chapter] = "done"]
      BY <1>3, <2>1 DEF CloseChapter, Work
    <3>6. bookWork'.todo = bookWork.todo \ {Chapter} /\ KeepsRun
      BY <1>3, <2>1, BatchEndsWork DEF GoesOnTo
    <3>7. QED BY <1>1, <2>1, <3>1, <3>2, <3>4, <3>5, <3>6
  <2>2. CASE bookWork.pc = "close" /\ GoesOnTo("closing")
    <3>1. UNCHANGED bookStatus /\ Working
      BY <1>3, <2>2 DEF CloseChapter, Working
    <3>2. QED BY <1>0, <2>2, <3>1 DEF StatusInv, GoesOnTo, WorkGoes, KeepsChapter, KeepsRun, Planned
  <2>3. QED BY <1>3, <2>1, <2>2, BatchEndsWork DEF WorkGoes
<1>4. CASE UNCHANGED bookStatus
  <2>1. Planned' => bookStatus'[Chapter'] # "done"
    <3>1. CASE Planned /\ Chapter' = Chapter
      BY <1>4, <3>1 DEF StatusInv
    <3>2. CASE PlanBatch
      <4>1. /\ bookWork.pc = "batch" /\ Opened /\ bookWork.batches # {} /\ ~Batch.done /\ ~Translated
            /\ Chapter' = Chapter
        BY <3>2, PlansWork, ChapterKept DEF PlanBatch, Opened, Translated
      <4>2. IsBatch(Batch) /\ HasNone(Batch)
        BY <4>1, LeastBatch DEF BatchesInv
      <4>3. Batch.start \in 1..Length[Chapter] /\ bookText[Chapter][Batch.start] = NoText
        BY <4>1, <4>2, SpanWithin DEF HasNone
      <4>4. Batch.start # 0 /\ Chapter \in 1..Chapters
        BY <4>1, <4>2, ChapterIsLeast DEF IsBatch, BookWorkInv, Opened, Working
      <4>5. PICK t : t = <<Chapter, Batch.start>>
        OBVIOUS
      <4>6. t[1] = Chapter /\ t[2] = Batch.start
        BY <4>5
      <4>7. t \notin bookTerms
        BY <4>3, <4>4, <4>6 DEF TermsInv, IsTerm
      <4>8. ~IsComplete(Chapter)
        BY <4>3, <4>5, <4>7 DEF IsComplete, Segments
      <4>9. QED BY <1>4, <4>1, <4>4, <4>8 DEF StatusInv
    <3>3. QED
      BY <3>1, <3>2, WorkSteps, ChapterKept DEF Stays, Leaves, Opens, Proceeds, Turns, Planned,
         WorkGoes, Chapter
  <2>2. Working' /\ bookWork'.whole => \A c \in 1..Chapters : c \in bookWork'.todo \/ bookStatus'[c] = "done"
    <3>1. CASE \E settings \in Settings : StartBook(settings)
      <4>1. PICK settings \in Settings : StartBook(settings)
        BY <3>1
      <4>2. bookWork'.whole => bookWork'.todo = Pending
        BY <4>1, StartsWork
      <4>3. QED BY <1>4, <4>2 DEF Pending
    <3>2. CASE UNCHANGED bookWork
      BY <1>4, <3>2 DEF StatusInv, Working
    <3>3. CASE KeepsChapter /\ Working
      BY <1>4, <3>3 DEF StatusInv, KeepsChapter, KeepsRun
    <3>4. CASE bookWork' = IdleWork
      BY <3>4 DEF IdleWork, Working
    <3>5. CASE Leaves
      <4>1. CASE EndBook \/ InvocationFails \/ DraftsEnd \/ MergeBatch
        BY <3>4, <3>5, <4>1, WorkIsOver, PrecisionWork DEF GoesOnTo, WorkGoes, Leaves
      <4>2. CASE \E c \in 1..Chapters : \E s \in Segments(c) : EditSegment(c, s)
        BY <3>2, <4>2 DEF EditSegment
      <4>3. CASE \E d \in DraftIds : DraftAnswers(d) \/ DraftFails(d) \/ BindDraft(d)
        BY <3>2, <4>3 DEF DraftAnswers, DraftFails, BindDraft
      <4>4. CASE OpenChapter \/ CloseChapter
        <5>1. bookStatus'[Chapter] = "done" /\ bookWork'.todo = bookWork.todo \ {Chapter} /\ KeepsRun /\ Working
          BY <1>2, <1>3, <3>5, <4>4, OpensWork, BatchEndsWork, ChapterIsLeast
          DEF Leaves, WorkGoes, GoesOnTo, OpenChapter, CloseChapter, Working, BookWorkInv, StatusInv, Work, NextChapter
        <5>2. QED BY <1>4, <5>1 DEF StatusInv, KeepsRun
      <4>5. CASE SkipBatch \/ SaveBatch \/ WriteResult \/ PreparePublication \/ MarkPublished \/ ExtractTerms
                 \/ ExtractChapter
        BY <3>5, <4>5, WorkMoves DEF GoesOnTo, WorkGoes, Leaves
      <4>6. CASE PlanBatch \/ TranslateBatch \/ ReuseResults \/ RecoverSynthesis \/ SynthesisAnswers
                 \/ AlignBatch \/ LogExtraction
        BY <3>5, <4>6, PlansWork, TranslatesWork, PrecisionWork, BatchEndsWork DEF WorkGoes, Leaves
      <4>7. CASE UNCHANGED bookVars
        BY <3>2, <4>7 DEF bookVars
      <4>8. QED
        BY <3>1, <4>1, <4>2, <4>3, <4>4, <4>5, <4>6, <4>7 DEF BookNext, BookStep, PrecisionStep
    <3>6. CASE Opens \/ Proceeds \/ Turns
      <4>1. Working /\ KeepsChapter
        BY <3>6 DEF Opens, OpenChapter, Proceeds, Turns, Opened, Working
      <4>2. QED BY <3>3, <4>1
    <3>7. QED BY <3>2, <3>5, <3>6, WorkSteps DEF Stays
  <2>3. QED BY <1>0, <1>4, <2>1, <2>2 DEF StatusInv
<1>5. QED BY <1>2, <1>3, <1>4, FilesStep

LEMMA SnapshotStep ==
    ASSUME BookWorkInv, SnapshotInv, [BookNext]_bookVars
    PROVE  SnapshotInv'
<1>1. CASE Stays
  <2>1. CASE bookWork.pc \in {"idle", "drafts"}
    <3>1. UNCHANGED bookTerms
      BY <2>1, FilesStep DEF ExtractTerms, ExtractChapter
    <3>2. QED BY <1>1, <3>1 DEF Stays, SnapshotInv, Opened
  <2>2. CASE UNCHANGED bookVars
    BY <2>2 DEF bookVars, bookGlossary, SnapshotInv, Opened
  <2>3. QED BY <1>1, <2>1, <2>2 DEF Stays
<1>2. CASE Leaves
  BY <1>2 DEF Leaves, SnapshotInv, Opened
<1>3. CASE Opens
  BY <1>3 DEF Opens, OpenChapter, bookGlossary, SnapshotInv
<1>4. CASE Proceeds
  <2>1. CASE bookWork'.pc \in {"event", "close", "closing"}
    BY <2>1 DEF SnapshotInv
  <2>2. CASE bookWork'.pc \notin {"event", "close", "closing"}
    <3>1. UNCHANGED bookTerms
      <4>1. ~ExtractTerms /\ ~ExtractChapter
        BY <2>2, WorkMoves DEF GoesOnTo, WorkGoes
      <4>2. QED BY <4>1, FilesStep
    <3>2. bookWork.pc \notin {"event", "close", "closing"} /\ Opened
      BY <1>4, <2>2 DEF Proceeds
    <3>3. \/ bookWork'.snapshot = bookWork.snapshot /\ bookWork'.stale = bookWork.stale
          \/ bookWork'.snapshot = bookTerms
      BY <1>4, <3>2, PlansWork DEF Proceeds, KeepsTerms, SnapshotInv
    <3>4. QED BY <3>1, <3>2, <3>3 DEF SnapshotInv
  <2>3. QED BY <2>1, <2>2
<1>5. CASE Turns
  <2>1. CASE LogExtraction /\ bookWork'.stale = TRUE
    BY <2>1 DEF SnapshotInv
  <2>2. CASE AlignBatch /\ KeepsTerms
    <3>1. UNCHANGED bookTerms /\ bookWork.pc = "align" /\ Opened
      BY <2>2 DEF AlignBatch, bookGlossary, Opened
    <3>2. QED BY <2>2, <3>1 DEF SnapshotInv, KeepsTerms
  <2>3. QED BY <1>5, <2>1, <2>2 DEF Turns
<1>6. QED BY <1>1, <1>2, <1>3, <1>4, <1>5, WorkSteps


\* The context that was planned is the text before the batch.
ContextInv ==
    bookWork.pc \in {"request", "reuse"} =>
        bookWork.plan.context = RecentContext(Chapter, bookText[Chapter], Batch.start)

LEMMA ContextSame ==
    ASSUME UNCHANGED bookText, NEW c, NEW copy, NEW start
    PROVE  RecentContext(c, copy, start)' = RecentContext(c, copy, start)
BY DEF RecentContext, Before

LEMMA ContextStep ==
    ASSUME BookWorkInv, CopyInv, ContextInv, [BookNext]_bookVars
    PROVE  ContextInv'
<1>1. CASE UNCHANGED bookVars
  <2>1. PICK c, copy, start : c = Chapter /\ copy = bookText[Chapter] /\ start = Batch.start
    OBVIOUS
  <2>2. UNCHANGED <<bookText, bookWork>>
    BY <1>1 DEF bookVars, bookFormal
  <2>3. c = Chapter' /\ copy = bookText'[Chapter'] /\ start = Batch'.start
    BY <2>1, <2>2 DEF Chapter, Batch
  <2>4. RecentContext(c, copy, start)' = RecentContext(c, copy, start)
    BY <2>2, ContextSame
  <2>5. RecentContext(Chapter, bookText[Chapter], Batch.start)' = RecentContext(c, copy, start)'
    BY <2>3 DEF RecentContext, Before
  <2>6. QED BY <2>1, <2>2, <2>4, <2>5 DEF ContextInv
<1>2. CASE PlanBatch
  <2>1. /\ UNCHANGED bookText /\ bookWork.pc = "batch" /\ bookWork.copy = bookText[Chapter]
        /\ KeepsChapter /\ KeepsBatches /\ bookWork'.plan = CapturePlan(bookWork'.snapshot)
    BY <1>2, PlansWork DEF PlanBatch, bookFormal, CopyInv, Opened
  <2>2. PICK c, copy, start : c = Chapter /\ copy = bookText[Chapter] /\ start = Batch.start
    OBVIOUS
  <2>3. bookWork'.plan.context = RecentContext(c, copy, start)
    BY <2>1, <2>2 DEF CapturePlan
  <2>4. c = Chapter' /\ copy = bookText'[Chapter'] /\ start = Batch'.start
    BY <2>1, <2>2, ChapterKept, BatchKept
  <2>5. RecentContext(c, copy, start)' = RecentContext(c, copy, start)
    BY <2>1, ContextSame
  <2>6. RecentContext(Chapter, bookText[Chapter], Batch.start)' = RecentContext(c, copy, start)'
    BY <2>4 DEF RecentContext, Before
  <2>7. QED BY <2>3, <2>5, <2>6 DEF ContextInv
<1>3. CASE bookWork'.pc \notin {"request", "reuse"}
  BY <1>3 DEF ContextInv
<1>4. QED
  BY <1>1, <1>2, <1>3, WorkSteps DEF Stays, Leaves, Opens, Proceeds, Turns, WorkGoes

\* A plan is of a batch of its chapter.
IsPlan(plan) ==
    /\ plan = [chapter |-> plan.chapter, start |-> plan.start, count |-> plan.count,
               terms |-> plan.terms, context |-> plan.context]
    /\ plan.chapter \in 1..Chapters /\ plan.start \in Nat \ {0} /\ plan.count \in Nat \ {0}
    /\ plan.start + plan.count - 1 <= Length[plan.chapter]
PlansInv == (\A r \in bookCalls : IsPlan(r.plan)) /\ (Planned => IsPlan(bookWork.plan))

\* A step with a plan keeps it or makes it.
LEMMA PlannedStep ==
    ASSUME BookWorkInv, BatchesInv, [BookNext]_bookVars, Planned'
    PROVE  \/ Planned /\ KeepsPlan /\ ~PlanBatch
           \/ /\ PlanBatch /\ Opened /\ bookWork.pc = "batch" /\ bookWork.batches # {} /\ ~Batch.done
              /\ IsBatch(Batch) /\ HasNone(Batch) /\ Chapter \in 1..Chapters
              /\ bookWork'.plan = CapturePlan(bookWork'.snapshot)
              /\ UNCHANGED <<bookFormal, bookGlossary, bookPrecision, bookDraws, bookGhosts, bookFailures>>
<1>1. CASE PlanBatch
  <2>1. /\ bookWork.pc = "batch" /\ bookWork.batches # {} /\ ~Batch.done /\ Opened /\ ~Translated
        /\ UNCHANGED <<bookFormal, bookGlossary, bookPrecision, bookDraws, bookGhosts, bookFailures>>
    BY <1>1 DEF PlanBatch, Opened, Translated
  <2>2. IsBatch(Batch) /\ HasNone(Batch)
    BY <2>1, LeastBatch DEF BatchesInv
  <2>3. Chapter \in 1..Chapters
    BY <2>1, ChapterIsLeast DEF BookWorkInv, Opened, Working
  <2>4. QED BY <1>1, <2>1, <2>2, <2>3, PlansWork
<1>2. CASE ~PlanBatch
  BY <1>2, WorkSteps DEF Stays, Leaves, Opens, Proceeds, Turns, WorkGoes, KeepsPlan, Planned
<1>3. QED BY <1>1, <1>2

LEMMA PlansStep ==
    ASSUME BookWorkInv, BatchesInv, PlansInv, [BookNext]_bookVars
    PROVE  PlansInv'
<1>1. Planned' => IsPlan(bookWork'.plan)
  <2>1. CASE Planned /\ KeepsPlan
    BY <2>1 DEF PlansInv, KeepsPlan
  <2>2. CASE /\ IsBatch(Batch) /\ Chapter \in 1..Chapters
             /\ bookWork'.plan = CapturePlan(bookWork'.snapshot)
    BY <2>2 DEF CapturePlan, IsPlan, IsBatch
  <2>3. QED BY <2>1, <2>2, PlannedStep
<1>2. \A r \in bookCalls' : IsPlan(r.plan)
  <2>1. CASE UNCHANGED bookCalls
    BY <2>1 DEF PlansInv
  <2>2. ASSUME NEW d \in DraftIds, DraftAnswers(d) PROVE \A r \in bookCalls' : IsPlan(r.plan)
    BY <2>2 DEF DraftAnswers, PlansInv, Planned
  <2>3. CASE SynthesisAnswers
    BY <2>3 DEF SynthesisAnswers, PlansInv, Planned
  <2>4. QED BY <2>1, <2>2, <2>3, FilesStep
<1>3. QED BY <1>1, <1>2 DEF PlansInv, IsPlan

\* A text that is about to be saved is nobody else's.
FreshInv == bookWork.pc = "save" => \A r \in bookCalls : r.text # bookDraws + 1

LEMMA FreshStep ==
    ASSUME BookWorkInv, ReceiptsInv, FreshInv, [BookNext]_bookVars
    PROVE  FreshInv'
<1>1. CASE UNCHANGED bookVars
  BY <1>1 DEF bookVars, bookPrecision, FreshInv
<1>2. CASE TranslateBatch
  <2>1. UNCHANGED bookCalls /\ bookDraws' = bookDraws + 1 /\ bookDraws \in Nat
    BY <1>2 DEF TranslateBatch, bookPrecision, ReceiptsInv
  <2>2. ASSUME NEW r \in bookCalls PROVE r.text # bookDraws' + 1
    <3>1. r.text = 0 \/ r.text \in 2..(bookDraws + 1)
      BY DEF ReceiptsInv, IsReceipt, NoText
    <3>2. QED BY <2>1, <3>1
  <2>3. QED BY <2>1, <2>2 DEF FreshInv
<1>3. CASE bookWork'.pc # "save"
  BY <1>3 DEF FreshInv
<1>4. QED
  BY <1>1, <1>2, <1>3, WorkSteps DEF Stays, Leaves, Opens, Proceeds, Turns, WorkGoes


-----------------------------------------------------------------------------
(* TranslationBatches: publications that have reached their chapter         *)

\* A publication that is ready and whose text is the chapter's is the one about to be
\* marked, as long as the chapter is translated; no chapter is done with one.
IsReached(p) == \A s \in Span(p.plan) : bookText[p.plan.chapter][s] = p.text
ReconciledInv ==
    \A p \in bookPublications : p.status = "ready" /\ IsReached(p) =>
        /\ bookStatus[p.plan.chapter] # "done"
        /\ Opened /\ p.plan.chapter = Chapter => bookWork.pc = "mark" /\ p.plan = bookWork.plan

LEMMA PublicationKnown ==
    ASSUME ReceiptsInv, PlansInv, PublicationsInv, NEW p \in bookPublications
    PROVE  /\ IsPlan(p.plan) /\ p.text \in Nat /\ p.text >= 2 /\ IsSynthesis(p.plan, p.text)
           /\ \E r \in bookCalls : r.plan = p.plan /\ r.stage = "synthesis" /\ r.text = p.text
<1>1. PICK r : r = [plan |-> p.plan, stage |-> "synthesis", text |-> p.text]
  OBVIOUS
<1>2. r \in bookCalls /\ r.plan = p.plan /\ r.stage = "synthesis" /\ r.text = p.text
  BY <1>1 DEF PublicationsInv, IsPublication, IsSynthesis
<1>3. p.text \in 2..(bookDraws + 1) /\ bookDraws \in Nat
  BY <1>2 DEF ReceiptsInv, IsReceipt
<1>4. IsPlan(p.plan)
  BY <1>2 DEF PlansInv
<1>5. QED BY <1>2, <1>3, <1>4 DEF PublicationsInv, IsPublication

\* Only the merge of its own batch makes a publication reached.
LEMMA ReachedBefore ==
    ASSUME BookWorkInv, CountersInv, ReceiptsInv, ResultsInv, TextsInv, CopyInv, BatchesInv, PlansInv,
           PublicationsInv, FreshInv, [BookNext]_bookVars,
           NEW p \in bookPublications, IsReached(p)'
    PROVE  \/ IsReached(p)
           \/ /\ Planned /\ p.plan = bookWork.plan /\ bookWork'.pc = "mark" /\ KeepsPlan /\ UNCHANGED bookStatus
<1>1. IsPlan(p.plan) /\ p.text >= 2 /\ p.text \in Nat
  BY PublicationKnown
<1>2. \A s \in Span(p.plan) : s \in Segments(p.plan.chapter)
  <2>1. Length[p.plan.chapter] \in Nat /\ p.plan.start \in Nat \ {0} /\ p.plan.count \in Nat \ {0}
    BY <1>1, BookAssumption DEF IsPlan
  <2>2. p.plan.start + p.plan.count - 1 <= Length[p.plan.chapter]
    BY <1>1 DEF IsPlan
  <2>3. QED BY <2>1, <2>2 DEF Span, Segments
<1>3. \A s \in Span(p.plan) : bookText'[p.plan.chapter][s] = p.text
  BY DEF IsReached
<1>4. CASE UNCHANGED bookText
  BY <1>3, <1>4 DEF IsReached
<1>5. CASE Edits
  <2>1. PICK e \in 1..Chapters : \E n \in Segments(e) : bookText' = [bookText EXCEPT ![e][n] = UserText]
    BY <1>5 DEF Edits
  <2>2. PICK n \in Segments(e) : bookText' = [bookText EXCEPT ![e][n] = UserText]
    BY <2>1
  <2>3. bookText[e] \in Seq(Nat) /\ Len(bookText[e]) = Length[e] /\ DOMAIN bookText = 1..Chapters
    BY DEF TextsInv
  <2>4. DOMAIN bookText[e] = Segments(e)
    BY <2>3, LenProperties DEF Segments
  <2>5. p.plan.chapter \in 1..Chapters
    BY <1>1 DEF IsPlan
  <2>6. \A s \in Span(p.plan) :
            bookText'[p.plan.chapter][s] \in {UserText, bookText[p.plan.chapter][s]}
    BY <2>2, <2>3, <2>4, <2>5
  <2>7. UserText # p.text
    BY <1>1 DEF UserText
  <2>8. QED BY <1>3, <2>6, <2>7 DEF IsReached
<1>6. ASSUME NEW text, Fills(text), ~IsReached(p)
      PROVE  /\ Planned /\ p.plan = bookWork.plan /\ bookWork'.pc = "mark" /\ KeepsPlan /\ UNCHANGED bookStatus
  <2>1. PICK s \in Span(p.plan) : bookText[p.plan.chapter][s] # p.text
    BY <1>6 DEF IsReached
  <2>2. bookText'[p.plan.chapter][s] = p.text /\ s \in Segments(p.plan.chapter) /\ s \in Nat
    BY <1>2, <1>3 DEF Segments
  <2>3. p.plan.chapter \in 1..Chapters
    BY <1>1 DEF IsPlan
  <2>4. p.plan.chapter = Chapter /\ s \in Span(Batch)
    BY <1>6, <2>1, <2>2, <2>3, FillsBatch
  <2>5. text = p.text
    BY <1>6, <2>2, <2>4, FillsBatch
  <2>6. PICK r \in bookCalls : r.plan = p.plan /\ r.stage = "synthesis" /\ r.text = p.text
    BY PublicationKnown
  <2>7. bookWork.pc = "merge" /\ text = bookWork.text
    BY <1>6, <2>5, <2>6 DEF Fills, FreshInv
  <2>8. PICK t : t = [plan |-> bookWork.plan, stage |-> "synthesis", text |-> text]
    OBVIOUS
  <2>9. t \in bookCalls /\ t.plan = bookWork.plan /\ t.stage = "synthesis" /\ t.text = text
    BY <2>7, <2>8 DEF ResultsInv, IsSynthesis
  <2>10. p.plan = bookWork.plan
    BY <2>5, <2>6, <2>9 DEF ReceiptsInv
  <2>11. QED BY <1>6, <2>7, <2>10 DEF Fills, WorkGoes, Planned
<1>7. QED BY <1>4, <1>5, <1>6, TextsStep

\* A publication that is ready was so before, and is not marked by this step, or is new.
LEMMA ReadyBefore ==
    ASSUME BookWorkInv, ReceiptsInv, ResultsInv, TextsInv, CopyInv, BatchesInv, PlansInv, PublicationsInv,
           [BookNext]_bookVars, NEW p \in bookPublications', p.status = "ready", IsReached(p)'
    PROVE  /\ p \in bookPublications
           /\ OpenChapter => ~Reached(p)
           /\ MarkPublished => p.plan # bookWork.plan
<1>0. bookCalls \subseteq bookCalls'
  BY SynthesisStays
<1>1. CASE UNCHANGED bookPublications /\ ~OpenChapter /\ ~MarkPublished
  BY <1>1
<1>2. CASE OpenChapter
  <2>1. PICK marked : marked = {q \in bookPublications : Reached(q)}
    OBVIOUS
  <2>2. bookPublications' = {IF q \in marked THEN [q EXCEPT !.status = "published"] ELSE q :
                               q \in bookPublications}
    BY <1>2, <2>1 DEF OpenChapter, Recovered
  <2>3. p \in bookPublications /\ p \notin marked
    BY <1>0, <2>2, MarkedPublications
  <2>4. ~MarkPublished
    BY <1>2 DEF OpenChapter, MarkPublished
  <2>5. QED BY <2>1, <2>3, <2>4
<1>3. CASE MarkPublished
  <2>1. PICK marked : marked = {q \in bookPublications : q.plan = bookWork.plan}
    OBVIOUS
  <2>2. bookPublications' = {IF q \in marked THEN [q EXCEPT !.status = "published"] ELSE q :
                               q \in bookPublications}
    BY <1>3, <2>1 DEF MarkPublished
  <2>3. p \in bookPublications /\ p \notin marked
    BY <1>0, <2>2, MarkedPublications
  <2>4. ~OpenChapter
    BY <1>3 DEF OpenChapter, MarkPublished
  <2>5. QED BY <2>1, <2>3, <2>4
<1>4. CASE PreparePublication
  <2>1. bookWork.pc = "publish" /\ Opened /\ Planned /\ ~Translated /\ UNCHANGED bookText
    BY <1>4 DEF PreparePublication, bookFormal, Opened, Planned, Translated
  <2>2. p \in bookPublications
    <3>1. SUFFICES ASSUME p \notin bookPublications PROVE FALSE
      OBVIOUS
    <3>2. p = [plan |-> bookWork.plan, text |-> bookWork.text, status |-> "ready"]
      BY <1>4, <3>1 DEF PreparePublication
    <3>3. p.plan = bookWork.plan /\ p.text = bookWork.text
      BY <3>2
    <3>4. /\ Batch \in bookWork.batches /\ IsBatch(Batch) /\ HasNone(Batch) /\ bookWork.plan.chapter = Chapter
          /\ Span(bookWork.plan) = Span(Batch)
      BY <2>1, LeastBatch DEF BatchesInv, Span
    <3>5. Batch.start \in Span(p.plan)
      BY <2>1, <3>3, <3>4, SpanWithin
    <3>6. bookText'[Chapter][Batch.start] = p.text /\ bookText[Chapter][Batch.start] = NoText
      BY <3>3, <3>4, <3>5 DEF IsReached, HasNone
    <3>7. PICK r : r = [plan |-> bookWork.plan, stage |-> "synthesis", text |-> bookWork.text]
      OBVIOUS
    <3>8. r \in bookCalls /\ r.stage = "synthesis" /\ r.text = bookWork.text
      BY <2>1, <3>7 DEF ResultsInv, IsSynthesis
    <3>9. bookWork.text # NoText
      BY <3>8 DEF ReceiptsInv, IsReceipt, NoText
    <3>10. QED BY <2>1, <3>3, <3>6, <3>9
  <2>3. QED BY <2>1, <2>2 DEF OpenChapter, MarkPublished
<1>5. QED BY <1>1, <1>2, <1>3, <1>4, FilesStep

LEMMA ReconciledStep ==
    ASSUME BookWorkInv, CountersInv, ReceiptsInv, ResultsInv, TextsInv, CopyInv, BatchesInv, PlansInv,
           PublicationsInv, FreshInv, StatusInv, ReconciledInv, [BookNext]_bookVars
    PROVE  ReconciledInv'
<1>1. SUFFICES ASSUME NEW p \in bookPublications', p.status = "ready", IsReached(p)'
               PROVE  /\ bookStatus'[p.plan.chapter] # "done"
                      /\ Opened' /\ p.plan.chapter = Chapter' => bookWork'.pc = "mark" /\ p.plan = bookWork'.plan
  BY DEF ReconciledInv
<1>2. p \in bookPublications /\ (OpenChapter => ~Reached(p)) /\ (MarkPublished => p.plan # bookWork.plan)
  BY <1>1, ReadyBefore
<1>3. CASE IsReached(p)
  <2>0. p.plan.chapter \in 1..Chapters
    BY <1>2, PublicationKnown DEF IsPlan
  <2>1. /\ bookStatus[p.plan.chapter] # "done"
        /\ Opened /\ p.plan.chapter = Chapter => bookWork.pc = "mark" /\ p.plan = bookWork.plan
    BY <1>1, <1>2, <1>3 DEF ReconciledInv
  <2>2. OpenChapter => p.plan.chapter # Chapter
    BY <1>1, <1>2, <1>3 DEF IsReached, Reached
  <2>3. bookStatus'[p.plan.chapter] # "done"
    <3>1. CASE UNCHANGED bookStatus
      BY <2>1, <3>1
    <3>2. CASE OpenChapter
      BY <2>0, <2>1, <2>2, <3>2 DEF OpenChapter, StatusInv
    <3>3. CASE CloseChapter
      <4>1. Opened /\ p.plan.chapter # Chapter
        BY <2>1, <3>3 DEF CloseChapter, Opened
      <4>2. QED BY <2>0, <2>1, <3>3, <4>1 DEF CloseChapter, StatusInv
    <3>4. QED BY <3>1, <3>2, <3>3, FilesStep
  <2>4. Opened' /\ p.plan.chapter = Chapter' => bookWork'.pc = "mark" /\ p.plan = bookWork'.plan
    <3>1. CASE Stays
      BY <2>1, <3>1 DEF Stays, Opened, Chapter
    <3>2. CASE Leaves
      BY <3>2 DEF Leaves, Opened
    <3>3. CASE Opens
      BY <2>2, <3>3, ChapterKept DEF Opens
    <3>4. CASE Proceeds
      BY <1>2, <2>1, <3>4, ChapterKept DEF Proceeds
    <3>5. CASE Turns
      BY <2>1, <3>5, ChapterKept DEF Turns, AlignBatch, LogExtraction
    <3>6. QED BY <3>1, <3>2, <3>3, <3>4, <3>5, WorkSteps
  <2>5. QED BY <2>3, <2>4
<1>4. CASE Planned /\ p.plan = bookWork.plan /\ bookWork'.pc = "mark" /\ KeepsPlan /\ UNCHANGED bookStatus
  <2>1. p.plan.chapter = Chapter /\ bookStatus[Chapter] # "done"
    BY <1>4 DEF BatchesInv, StatusInv
  <2>2. QED BY <1>4, <2>1 DEF KeepsPlan
<1>5. QED BY <1>1, <1>2, <1>3, <1>4, ReachedBefore


-----------------------------------------------------------------------------
(* TranslationBatches: what is before a batch                               *)

\* All the text before a segment is there.
AllBefore(c, start) ==
    /\ \A e \in 1..(c - 1) : \A s \in Segments(e) : bookText[e][s] # NoText
    /\ \A s \in 1..(start - 1) : bookText[c][s] # NoText

\* A run of the whole book has left nothing out before the batch it is at.
LEMMA BeforeBatch ==
    ASSUME BookWorkInv, ReceiptsInv, TextsInv, CopyInv, BatchesInv, TermsInv, CoverInv, StatusInv, Opened,
           bookWork.batches # {}
    PROVE  /\ \A s \in 1..(Batch.start - 1) : <<Chapter, s>> \in bookTerms /\ bookText[Chapter][s] # NoText
           /\ bookWork.whole => /\ \A e \in 1..(Chapter - 1) : bookStatus[e] = "done" /\ IsComplete(e)
                                /\ AllBefore(Chapter, Batch.start)
<1>1. Working /\ bookWork.todo # {} /\ IsBatch(Batch) /\ \A b \in bookWork.batches : Batch.start <= b.start
  BY LeastBatch DEF Opened, Working, BookWorkInv
<1>2. Chapter \in 1..Chapters /\ Length[Chapter] \in Nat /\ \A c \in bookWork.todo : Chapter <= c
  BY <1>1, ChapterTexts, ChapterIsLeast
<1>3. ASSUME NEW e \in 1..Chapters, NEW s \in Segments(e), <<e, s>> \in bookTerms
      PROVE  bookText[e][s] # NoText
  <2>1. PICK t : t = <<e, s>>
    OBVIOUS
  <2>2. t[1] = e /\ t[2] = s /\ t \in bookTerms
    BY <1>3, <2>1
  <2>3. s # 0
    BY BookAssumption DEF Segments
  <2>4. QED BY <2>2, <2>3 DEF TermsInv, IsTerm
<1>4. ASSUME NEW s \in 1..(Batch.start - 1)
      PROVE  <<Chapter, s>> \in bookTerms /\ bookText[Chapter][s] # NoText
  <2>1. Batch.start \in Nat /\ Batch.count \in Nat \ {0} /\ Batch.start + Batch.count - 1 <= Length[Chapter]
    BY <1>1 DEF IsBatch
  <2>2. s \in Segments(Chapter) /\ s < Batch.start
    BY <1>2, <2>1 DEF Segments
  <2>3. \A b \in bookWork.batches : s \notin Span(b)
    <3>1. SUFFICES ASSUME NEW b \in bookWork.batches, s \in Span(b) PROVE FALSE
      OBVIOUS
    <3>2. IsBatch(b) /\ Batch.start <= b.start
      BY <1>1 DEF BatchesInv
    <3>3. b.start <= s
      BY <3>1, <3>2, SpanWithin
    <3>4. b.start \in Nat /\ s \in Nat
      BY <2>1, <3>2 DEF IsBatch
    <3>5. QED BY <2>1, <2>2, <3>2, <3>3, <3>4
  <2>4. <<Chapter, s>> \in bookTerms
    BY <2>2, <2>3 DEF CoverInv
  <2>5. QED BY <1>2, <1>3, <2>2, <2>4
<1>5. ASSUME bookWork.whole, NEW e \in 1..(Chapter - 1)
      PROVE  bookStatus[e] = "done" /\ IsComplete(e) /\ \A s \in Segments(e) : bookText[e][s] # NoText
  <2>1. Chapter \in Nat /\ Chapters \in Nat /\ e \in 1..Chapters /\ e < Chapter
    BY <1>2, BookAssumption
  <2>2. e \notin bookWork.todo
    <3>1. e \in Nat /\ Chapter \in Nat
      BY <2>1
    <3>2. QED BY <1>2, <2>1, <3>1
  <2>3. bookStatus[e] = "done" /\ IsComplete(e)
    BY <1>1, <1>5, <2>1, <2>2 DEF StatusInv
  <2>4. QED BY <1>3, <2>1, <2>3 DEF IsComplete
<1>6. QED BY <1>4, <1>5 DEF AllBefore

\* The context is what is before, whatever comes after.
LEMMA SameSeq ==
    ASSUME NEW x \in Seq(Nat), NEW y \in Seq(Nat), Len(x) = Len(y), \A s \in 1..Len(x) : x[s] = y[s]
    PROVE  x = y
BY SeqEqual

LEMMA SamePrefix ==
    ASSUME NEW x \in Seq(Nat), NEW y \in Seq(Nat), NEW n \in Nat, n <= Len(x), n <= Len(y),
           \A s \in 1..n : x[s] = y[s]
    PROVE  SubSeq(x, 1, n) = SubSeq(y, 1, n)
<1>1. /\ SubSeq(x, 1, n) \in Seq(Nat) /\ Len(SubSeq(x, 1, n)) = n
      /\ \A s \in 1..n : SubSeq(x, 1, n)[s] = x[s]
  BY LenProperties, SubSeqProperties
<1>2. /\ SubSeq(y, 1, n) \in Seq(Nat) /\ Len(SubSeq(y, 1, n)) = n
      /\ \A s \in 1..n : SubSeq(y, 1, n)[s] = y[s]
  BY LenProperties, SubSeqProperties
<1>3. QED BY <1>1, <1>2, SameSeq

LEMMA ContextLater ==
    ASSUME TextsInv, TextsInv', NEW c \in 1..Chapters, NEW start \in Nat \ {0}, start - 1 <= Length[c],
           AllBefore(c, start),
           \A e \in 1..Chapters : \A s \in Segments(e) :
              bookText[e][s] # NoText => bookText'[e][s] = bookText[e][s]
    PROVE  RecentContext(c, bookText[c], start)' = RecentContext(c, bookText[c], start)
<1>1. \A e \in 1..Chapters : /\ bookText[e] \in Seq(Nat) /\ bookText'[e] \in Seq(Nat)
                             /\ Len(bookText[e]) = Length[e] /\ Len(bookText'[e]) = Length[e] /\ Length[e] \in Nat
  BY BookAssumption DEF TextsInv
<1>2. \A e \in 1..(c - 1) : bookText'[e] = bookText[e]
  <2>1. SUFFICES ASSUME NEW e \in 1..(c - 1) PROVE bookText'[e] = bookText[e]
    OBVIOUS
  <2>2. e \in 1..Chapters
    BY BookAssumption
  <2>3. \A s \in 1..Length[e] : bookText'[e][s] = bookText[e][s]
    BY <2>2 DEF AllBefore, Segments
  <2>4. PICK x, y : x = bookText'[e] /\ y = bookText[e]
    OBVIOUS
  <2>5. x \in Seq(Nat) /\ y \in Seq(Nat) /\ Len(x) = Len(y) /\ \A s \in 1..Len(x) : x[s] = y[s]
    BY <1>1, <2>2, <2>3, <2>4
  <2>6. x = y
    BY <2>5, SameSeq
  <2>7. QED BY <2>4, <2>6
<1>3. Before(c)' = Before(c)
  <2>1. PICK x, y : x = [b \in 1..(c - 1) |-> bookText[b]] /\ y = [b \in 1..(c - 1) |-> bookText'[b]]
    OBVIOUS
  <2>2. x = y
    BY <1>2, <2>1
  <2>3. QED BY <2>1, <2>2 DEF Before
<1>4. SubSeq(bookText'[c], 1, start - 1) = SubSeq(bookText[c], 1, start - 1)
  <2>1. \A s \in 1..(start - 1) : bookText'[c][s] = bookText[c][s]
    <3>1. \A s \in 1..(start - 1) : s \in Segments(c)
      BY <1>1 DEF Segments
    <3>2. QED BY <3>1 DEF AllBefore
  <2>2. PICK n \in Nat : n = start - 1
    OBVIOUS
  <2>3. QED BY <1>1, <2>1, <2>2, SamePrefix
<1>5. QED BY <1>3, <1>4 DEF RecentContext


-----------------------------------------------------------------------------
(* TranslationBatches: one setting, one plan                                *)

\* While settings stay the batches are those of the budget.
BudgetEnd(c, start, size) ==
    Min({n \in 1..Length[c] : (n - 1) % size = 0 /\ n > start} \cup {Length[c] + 1})
InBudget(c, start, count, size) == (start - 1) % size = 0 /\ start + count = BudgetEnd(c, start, size)

LEMMA BudgetOfTexts ==
    ASSUME NEW c, NEW texts, DOMAIN texts = 1..Length[c], Len(texts) = Length[c], NEW start, NEW size
    PROVE  EndAmong(BudgetBegins(texts, size), texts, start) = BudgetEnd(c, start, size)
<1>1. {next \in BudgetBegins(texts, size) : next > start} = {n \in 1..Length[c] : (n - 1) % size = 0 /\ n > start}
  BY DEF BudgetBegins
<1>2. QED BY <1>1 DEF EndAmong, BudgetEnd

LEMMA BudgetEndIs ==
    ASSUME NEW c \in 1..Chapters, NEW start, NEW size
    PROVE  \/ BudgetEnd(c, start, size) = Length[c] + 1
           \/ (BudgetEnd(c, start, size) - 1) % size = 0
<1>1. PICK ends : ends = {n \in 1..Length[c] : (n - 1) % size = 0 /\ n > start} \cup {Length[c] + 1}
  OBVIOUS
<1>2. ends \in SUBSET Nat /\ ends # {}
  BY <1>1, BookAssumption
<1>3. BudgetEnd(c, start, size) \in ends
  BY <1>1, <1>2, MinIsLeast DEF BudgetEnd
<1>4. QED BY <1>1, <1>3

LEMMA BothWithin ==
    ASSUME NEW s \in Nat, NEW start \in Nat, NEW count \in Nat, s # start, s # start + count, s > 0
    PROVE  s \in start..(start + count - 1) <=> s - 1 \in start..(start + count - 1)
OBVIOUS

\* A chapter filled in a batch of the budget is budgeted as before.
LEMMA FilledBudget ==
    ASSUME NEW c \in 1..Chapters, NEW texts \in Seq(Nat), Len(texts) = Length[c], NEW size \in Nat \ {0},
           Budgeted(texts, size), NEW plan, NEW text \in Nat, text # NoText,
           plan.start \in Nat \ {0}, plan.count \in Nat \ {0}, InBudget(c, plan.start, plan.count, size)
    PROVE  Budgeted(Filled(texts, plan, text), size)
<1>1. PICK filled : filled = Filled(texts, plan, text)
  OBVIOUS
<1>2. DOMAIN filled = DOMAIN texts /\ DOMAIN texts = 1..Length[c] /\ Length[c] \in Nat
  BY <1>1, LenProperties DEF Filled
<1>3. \A s \in DOMAIN texts : filled[s] = IF s \in Span(plan) THEN text ELSE texts[s]
  BY <1>1, <1>2 DEF Filled
<1>4. ASSUME NEW s \in DOMAIN texts, (s - 1) \in DOMAIN texts, (s - 1) % size # 0
      PROVE  s \in Span(plan) <=> (s - 1) \in Span(plan)
  <2>1. PICK start \in Nat \ {0}, count \in Nat \ {0} : start = plan.start /\ count = plan.count
    OBVIOUS
  <2>2. s \in Nat /\ s - 1 \in Nat /\ s <= Length[c]
    BY <1>2, <1>4
  <2>3. s # start
    BY <1>4, <2>1 DEF InBudget
  <2>4. s # start + count
    <3>1. PICK end : end = BudgetEnd(c, plan.start, size)
      OBVIOUS
    <3>2. end = start + count
      BY <2>1, <3>1 DEF InBudget
    <3>3. end = Length[c] + 1 \/ (end - 1) % size = 0
      BY <3>1, BudgetEndIs
    <3>4. s # end
      BY <1>2, <1>4, <2>2, <3>3
    <3>5. QED BY <3>2, <3>4
  <2>5. Span(plan) = start..(start + count - 1)
    BY <2>1 DEF Span
  <2>6. s \in Nat /\ start \in Nat /\ count \in Nat /\ s > 0
    BY <2>1, <2>2
  <2>7. s \in start..(start + count - 1) <=> s - 1 \in start..(start + count - 1)
    BY <2>6, <2>3, <2>4, BothWithin
  <2>8. QED BY <2>5, <2>7
<1>5. QED BY <1>1, <1>2, <1>3, <1>4 DEF Budgeted

SettingsInv ==
    ~bookVaried =>
        /\ bookSettings = NoSettings =>
              /\ ~Working /\ bookCalls = {}
              /\ \A c \in 1..Chapters : \A s \in Segments(c) : bookText[c][s] = NoText
        /\ bookSettings # NoSettings =>
              /\ bookSettings.size \in Nat \ {0}
              /\ \A c \in 1..Chapters : Budgeted(bookText[c], bookSettings.size)
        /\ Working => bookWork.whole /\ bookWork.size = bookSettings.size
        /\ Opened => \A b \in bookWork.batches : InBudget(Chapter, b.start, b.count, bookSettings.size)

\* An invocation starts, ends, stays or goes on as it was started.
LEMMA RunSteps ==
    ASSUME BookWorkInv, [BookNext]_bookVars
    PROVE  /\ \/ \E settings \in Settings : StartBook(settings)
              \/ /\ UNCHANGED bookSettings
                 /\ UNCHANGED bookWork \/ ~Working' \/ (Working /\ KeepsRun)
           /\ ~Working => \/ \E settings \in Settings : StartBook(settings)
                          \/ \E c \in 1..Chapters : \E s \in Segments(c) : EditSegment(c, s)
                          \/ UNCHANGED bookVars
<1>1. PICK starts \in BOOLEAN : starts <=> \E settings \in Settings : StartBook(settings)
  OBVIOUS
<1>2. UNCHANGED bookSettings => starts \/ UNCHANGED bookWork \/ ~Working' \/ (Working /\ KeepsRun)
  <2>1. UNCHANGED bookWork \/ ~Working' \/ (Working /\ KeepsRun) \/ \E settings \in Settings : StartBook(settings)
    <3>1. CASE EndBook \/ InvocationFails \/ DraftsEnd \/ MergeBatch
      <4>1. Working
        BY <3>1 DEF EndBook, InvocationFails, DraftsEnd, MergeBatch, Working
      <4>2. QED BY <3>1, <4>1, WorkIsOver, PrecisionWork DEF GoesOnTo, KeepsChapter, IdleWork, Working
    <3>2. CASE \E c \in 1..Chapters : \E s \in Segments(c) : EditSegment(c, s)
      BY <3>2 DEF EditSegment
    <3>3. CASE \E d \in DraftIds : DraftAnswers(d) \/ DraftFails(d) \/ BindDraft(d)
      BY <3>3 DEF DraftAnswers, DraftFails, BindDraft
    <3>4. CASE OpenChapter \/ CloseChapter
      BY <3>4, OpensWork, BatchEndsWork DEF GoesOnTo, KeepsChapter, OpenChapter, CloseChapter, Working
    <3>5. CASE SkipBatch \/ SaveBatch \/ WriteResult \/ PreparePublication \/ MarkPublished \/ ExtractTerms
               \/ ExtractChapter
      BY <3>5, WorkMoves DEF GoesOnTo, KeepsChapter, SkipBatch, SaveBatch, WriteResult,
         PreparePublication,
         MarkPublished, ExtractTerms, ExtractChapter, Working
    <3>6. CASE PlanBatch \/ TranslateBatch \/ ReuseResults \/ RecoverSynthesis \/ SynthesisAnswers
               \/ AlignBatch \/ LogExtraction
      <4>1. Working
        BY <3>6 DEF PlanBatch, TranslateBatch, ReuseResults, RecoverSynthesis, SynthesisAnswers,
           AlignBatch,
           LogExtraction, Working
      <4>2. QED
        BY <3>6, <4>1, PlansWork, TranslatesWork, PrecisionWork, BatchEndsWork DEF KeepsChapter
    <3>7. CASE UNCHANGED bookVars
      BY <3>7 DEF bookVars
    <3>8. QED
      BY <3>1, <3>2, <3>3, <3>4, <3>5, <3>6, <3>7 DEF BookNext, BookStep, PrecisionStep
  <2>2. QED BY <1>1, <2>1
<1>3. ~Working => \/ \E settings \in Settings : StartBook(settings)
                  \/ \E c \in 1..Chapters : \E s \in Segments(c) : EditSegment(c, s)
                  \/ UNCHANGED bookVars
  BY DEF BookNext, BookStep, PrecisionStep, Working, OpenChapter, SkipBatch, PlanBatch,
     TranslateBatch, SaveBatch,
     AlignBatch, ExtractTerms, LogExtraction, ExtractChapter, CloseChapter, EndBook, InvocationFails, DraftAnswers,
     DraftFails, BindDraft, ReuseResults, DraftsEnd, RecoverSynthesis, SynthesisAnswers, WriteResult,
     PreparePublication, MergeBatch, MarkPublished
<1>4. QED BY <1>1, <1>2, <1>3, FilesStep


LEMMA SettingsStep ==
    ASSUME BookWorkInv, CountersInv, ReceiptsInv, ResultsInv, TextsInv, CopyInv, BatchesInv, SettingsInv,
           [BookNext]_bookVars
    PROVE  SettingsInv'
<1>1. SUFFICES ASSUME ~bookVaried' PROVE SettingsInv'
  BY DEF SettingsInv
<1>2. /\ ~bookVaried /\ ~Edits
  BY <1>1, FilesStep DEF Edits
<1>3. UNCHANGED bookText \/ \E text : Fills(text)
  BY <1>2, TextsStep
<1>4. ASSUME NEW settings \in Settings, StartBook(settings) PROVE SettingsInv'
  <2>1. /\ ~Working /\ UNCHANGED <<bookText, bookCalls>> /\ settings.only = 0
        /\ bookSettings' = (IF bookSettings = NoSettings THEN settings ELSE bookSettings)
        /\ bookSettings \in {NoSettings, settings}
    BY <1>1, <1>4, BookAssumption DEF StartBook, bookFormal, bookPrecision
  <2>2. bookSettings' = settings /\ settings.size \in Nat \ {0} /\ settings # NoSettings
    <3>1. settings.mode # "none"
      BY BookAssumption
    <3>2. settings # NoSettings
      BY <3>1 DEF NoSettings
    <3>3. QED BY <2>1, <3>2, BookAssumption
  <2>3. bookWork'.whole /\ bookWork'.size = settings.size /\ bookWork'.pc = "chapter"
    BY <1>4, <2>1, StartsWork DEF WorkGoes
  <2>4. \A c \in 1..Chapters : Budgeted(bookText[c], settings.size)
    <3>1. CASE bookSettings = settings
      BY <1>2, <2>2, <3>1 DEF SettingsInv
    <3>2. CASE bookSettings = NoSettings
      <4>1. \A c \in 1..Chapters : DOMAIN bookText[c] = Segments(c)
        BY LenProperties DEF TextsInv, Segments
      <4>2. \A c \in 1..Chapters : \A s \in Segments(c) : bookText[c][s] = NoText
        BY <1>2, <3>2 DEF SettingsInv
      <4>3. QED BY <4>1, <4>2 DEF Budgeted
    <3>3. QED BY <2>1, <3>1, <3>2
  <2>5. QED BY <2>1, <2>2, <2>3, <2>4 DEF SettingsInv, Opened
<1>5. CASE UNCHANGED bookVars
  BY <1>2, <1>5 DEF bookVars, bookFormal, bookPrecision, bookGhosts, SettingsInv, Working, Opened, Chapter
<1>6. CASE /\ UNCHANGED bookSettings /\ Working
           /\ UNCHANGED bookWork \/ ~Working' \/ (Working /\ KeepsRun)
  <2>1. bookSettings # NoSettings /\ bookSettings.size \in Nat \ {0} /\ bookWork.whole
        /\ bookWork.size = bookSettings.size
    BY <1>2, <1>6 DEF SettingsInv
  <2>2. Working' => bookWork'.whole /\ bookWork'.size = bookSettings.size
    BY <1>6, <2>1 DEF KeepsRun
  <2>3. ASSUME NEW c \in 1..Chapters PROVE Budgeted(bookText'[c], bookSettings.size)
    <3>1. Budgeted(bookText[c], bookSettings.size)
      BY <1>2, <2>1 DEF SettingsInv
    <3>2. CASE UNCHANGED bookText
      BY <3>1, <3>2
    <3>3. ASSUME NEW text, Fills(text) PROVE Budgeted(bookText'[c], bookSettings.size)
      <4>1. /\ text \in Nat /\ text # NoText /\ bookWork.pc \in {"save", "merge"}
            /\ bookText' = [bookText EXCEPT ![Chapter] = Filled(bookText[Chapter], bookWork.plan, text)]
        BY <3>3 DEF Fills, NoText
      <4>2. Opened /\ Planned /\ bookWork.todo # {}
        BY <1>6, <4>1 DEF Opened, Planned, BookWorkInv
      <4>3. /\ Chapter \in 1..Chapters /\ bookText[Chapter] \in Seq(Nat) /\ Len(bookText[Chapter]) = Length[Chapter]
            /\ DOMAIN bookText = 1..Chapters
        BY <1>6, <4>2, ChapterTexts DEF TextsInv
      <4>4. CASE c # Chapter
        BY <3>1, <4>1, <4>3, <4>4
      <4>5. CASE c = Chapter
        <5>1. PICK plan, texts, size : plan = bookWork.plan /\ texts = bookText[c] /\ size = bookSettings.size
          OBVIOUS
        <5>2. /\ plan.start = Batch.start /\ plan.count = Batch.count /\ Batch \in bookWork.batches /\ IsBatch(Batch)
          BY <4>2, <5>1, LeastBatch DEF BatchesInv
        <5>3. InBudget(c, plan.start, plan.count, size)
          BY <1>2, <4>2, <4>5, <5>1, <5>2 DEF SettingsInv
        <5>4. plan.start \in Nat \ {0} /\ plan.count \in Nat \ {0}
          BY <5>2 DEF IsBatch
        <5>5. /\ texts \in Seq(Nat) /\ Len(texts) = Length[c] /\ size \in Nat \ {0} /\ Budgeted(texts, size)
          BY <2>1, <3>1, <4>3, <4>5, <5>1
        <5>6. Budgeted(Filled(texts, plan, text), size)
          BY <4>1, <5>3, <5>4, <5>5, FilledBudget
        <5>7. QED BY <4>1, <4>3, <4>5, <5>1, <5>6
      <4>6. QED BY <4>4, <4>5
    <3>4. QED BY <1>3, <3>2, <3>3
  <2>4. Opened' => \A b \in bookWork'.batches : InBudget(Chapter', b.start, b.count, bookSettings.size)
    <3>1. CASE Opened /\ Chapter' = Chapter /\ bookWork'.batches \subseteq bookWork.batches
      BY <1>2, <3>1 DEF SettingsInv
    <3>2. CASE Opens
      <4>1. PICK texts, size : texts = bookText[Chapter] /\ size = bookSettings.size
        OBVIOUS
      <4>2. Chapter \in 1..Chapters /\ Chapter' = Chapter /\ bookWork'.batches = ResumeBatches(texts, size)
        BY <1>6, <2>1, <3>2, <4>1, ChapterIsLeast, ChapterKept DEF Opens, OpenChapter
      <4>3. texts \in Seq(Nat) /\ Len(texts) = Length[Chapter] /\ size \in Nat \ {0} /\ Budgeted(texts, size)
        BY <1>2, <2>1, <4>1, <4>2 DEF TextsInv, SettingsInv
      <4>4. \A b \in ResumeBatches(texts, size) :
              /\ b.start \in BudgetBegins(texts, size)
              /\ b.start + b.count = EndAmong(BudgetBegins(texts, size), texts, b.start)
        BY <4>3, ResumedBudget
      <4>5. DOMAIN texts = 1..Length[Chapter]
        BY <4>3, LenProperties
      <4>6. \A b \in ResumeBatches(texts, size) : InBudget(Chapter, b.start, b.count, size)
        BY <4>3, <4>4, <4>5, BudgetOfTexts DEF InBudget, BudgetBegins
      <4>7. QED BY <4>1, <4>2, <4>6
    <3>3. QED
      BY <3>1, <3>2, WorkSteps, ChapterKept DEF Stays, Leaves, Proceeds, Turns, Opened, Chapter,
         KeepsBatches
  <2>5. QED BY <1>6, <2>1, <2>2, <2>3, <2>4 DEF SettingsInv
<1>7. ASSUME NEW c \in 1..Chapters, NEW s \in Segments(c), EditSegment(c, s) PROVE FALSE
  BY <1>1, <1>7 DEF EditSegment
<1>8. QED BY <1>4, <1>5, <1>6, <1>7, RunSteps


\* While nobody edits, texts are there in the order of the book.
OrderInv ==
    ~bookVaried => \A c \in 1..Chapters : \A s \in Segments(c) : bookText[c][s] # NoText => AllBefore(c, s)

LEMMA BeforeRemains ==
    ASSUME BookWorkInv, CountersInv, ReceiptsInv, ResultsInv, TextsInv, CopyInv, BatchesInv, [BookNext]_bookVars,
           NEW c \in 1..Chapters, NEW start \in Nat, start - 1 <= Length[c], AllBefore(c, start)
    PROVE  AllBefore(c, start)'
<1>1. \A e \in 1..(c - 1) : e \in 1..Chapters
  BY BookAssumption
<1>2. \A s \in 1..(start - 1) : s \in Segments(c)
  BY BookAssumption DEF Segments
<1>3. QED BY <1>1, <1>2, TextsRemain DEF AllBefore

LEMMA OrderStep ==
    ASSUME BookWorkInv, CountersInv, ReceiptsInv, ResultsInv, TextsInv, CopyInv, BatchesInv, TermsInv, CoverInv,
           StatusInv, SettingsInv, OrderInv, [BookNext]_bookVars
    PROVE  OrderInv'
<1>1. SUFFICES ASSUME ~bookVaried', NEW c \in 1..Chapters, NEW s \in Segments(c), bookText'[c][s] # NoText
               PROVE  AllBefore(c, s)'
  BY DEF OrderInv
<1>2. /\ ~bookVaried /\ ~Edits
  BY <1>1, FilesStep DEF Edits
<1>3. s \in Nat /\ s - 1 <= Length[c]
  BY BookAssumption DEF Segments
<1>4. CASE bookText[c][s] # NoText
  BY <1>2, <1>3, <1>4, BeforeRemains DEF OrderInv
<1>5. ASSUME bookText[c][s] = NoText, NEW text, Fills(text) PROVE AllBefore(c, s)'
  <2>1. c = Chapter /\ s \in Span(Batch)
    BY <1>1, <1>3, <1>5, FillsBatch
  <2>2. Opened /\ Planned /\ Working
    BY <1>5 DEF Fills, Opened, Planned, Working
  <2>3. Batch \in bookWork.batches /\ IsBatch(Batch) /\ bookWork.whole
    BY <1>2, <2>2, LeastBatch DEF BatchesInv, SettingsInv
  <2>4. AllBefore(Chapter, Batch.start)
    BY <2>2, <2>3, BeforeBatch
  <2>5. Batch.start \in Nat /\ Batch.start - 1 <= Length[c]
    <3>1. Length[c] \in Nat /\ Batch.count \in Nat \ {0} /\ Batch.start \in Nat \ {0}
          /\ Batch.start + Batch.count - 1 <= Length[c]
      BY <2>1, <2>3, BookAssumption DEF IsBatch
    <3>2. QED BY <3>1
  <2>6. AllBefore(c, Batch.start)'
    <3>1. PICK start : start = Batch.start
      OBVIOUS
    <3>2. AllBefore(c, start)'
      BY <2>1, <2>4, <2>5, <3>1, BeforeRemains
    <3>3. Batch' = Batch
      BY <1>5, FillsBatch
    <3>4. QED BY <3>1, <3>2, <3>3 DEF AllBefore
  <2>7. \A n \in 1..(s - 1) : bookText'[c][n] # NoText
    <3>1. SUFFICES ASSUME NEW n \in 1..(s - 1) PROVE bookText'[c][n] # NoText
      OBVIOUS
    <3>2. CASE n < Batch.start
      <4>1. Batch' = Batch
        BY <1>5, FillsBatch
      <4>2. n \in 1..(Batch.start - 1)
        BY <1>3, <2>5, <3>2
      <4>3. QED BY <2>6, <4>1, <4>2 DEF AllBefore
    <3>3. CASE ~(n < Batch.start)
      <4>1. n \in Span(Batch)
        <5>1. PICK start \in Nat, count \in Nat : start = Batch.start /\ count = Batch.count
          BY <2>3 DEF IsBatch
        <5>2. s \in start..(start + count - 1)
          BY <2>1, <5>1 DEF Span
        <5>3. n \in Nat /\ n >= start /\ n < s
          BY <1>3, <3>3, <5>1
        <5>4. n \in start..(start + count - 1)
          BY <1>3, <5>2, <5>3
        <5>5. QED BY <5>1, <5>4 DEF Span
      <4>2. bookText'[c][n] = text
        BY <1>5, <2>1, <4>1, FillsBatch
      <4>3. text # NoText
        BY <1>5 DEF Fills, NoText
      <4>4. QED BY <4>2, <4>3
    <3>4. QED BY <3>2, <3>3
  <2>8. QED BY <2>6, <2>7 DEF AllBefore
<1>6. QED BY <1>1, <1>2, <1>4, <1>5, TextsStep

\* The terms a batch is planned with: those of all that is before it, and no others.
InOrder(terms, c, start) ==
    /\ \A t \in terms : /\ t = <<t[1], t[2]>> /\ t[1] \in 1..c /\ t[2] \in 0..Length[t[1]] /\ Length[t[1]] # 0
                        /\ t[1] = c => t[2] \in 1..(start - 1)
    /\ \A e \in 1..(c - 1) : Length[e] # 0 => \A s \in 0..Length[e] : <<e, s>> \in terms
    /\ \A s \in 1..(start - 1) : <<c, s>> \in terms

LEMMA InOrderIsOne ==
    ASSUME NEW terms, NEW others, NEW c \in Nat, NEW start, InOrder(terms, c, start), InOrder(others, c, start)
    PROVE  terms \subseteq others
<1>1. SUFFICES ASSUME NEW t \in terms PROVE t \in others
  OBVIOUS
<1>2. /\ t = <<t[1], t[2]>> /\ t[1] \in 1..c /\ t[2] \in 0..Length[t[1]] /\ Length[t[1]] # 0
      /\ t[1] = c => t[2] \in 1..(start - 1)
  BY DEF InOrder
<1>3. CASE t[1] = c
  <2>1. <<c, t[2]>> \in others
    BY <1>2, <1>3 DEF InOrder
  <2>2. QED BY <1>2, <1>3, <2>1
<1>4. CASE t[1] # c
  <2>1. t[1] \in 1..(c - 1)
    BY <1>2, <1>4
  <2>2. <<t[1], t[2]>> \in others
    BY <1>2, <2>1 DEF InOrder
  <2>3. QED BY <1>2, <2>2
<1>5. QED BY <1>3, <1>4

LEMMA PlannedInOrder ==
    ASSUME BookWorkInv, ReceiptsInv, TextsInv, CopyInv, BatchesInv, TermsInv, CoverInv, StatusInv, OrderInv,
           ~bookVaried, bookWork.whole, Opened, bookWork.batches # {}, HasNone(Batch)
    PROVE  InOrder(bookTerms, Chapter, Batch.start)
<1>1. Working /\ bookWork.todo # {} /\ IsBatch(Batch)
  BY LeastBatch DEF Opened, Working, BookWorkInv
<1>2. Chapter \in 1..Chapters /\ Length[Chapter] \in Nat /\ Chapters \in Nat
  BY <1>1, ChapterTexts, BookAssumption
<1>3. /\ Batch.start \in Span(Batch) /\ Batch.start \in Nat \ {0} /\ Batch.start \in 1..Length[Chapter]
  BY <1>1, SpanWithin DEF IsBatch
<1>4. bookText[Chapter][Batch.start] = NoText
  BY <1>3 DEF HasNone
<1>5. ASSUME NEW c \in 1..Chapters, NEW s \in Segments(c), bookText[c][s] # NoText
      PROVE  c <= Chapter /\ (c = Chapter => s < Batch.start)
  <2>1. AllBefore(c, s)
    BY <1>5 DEF OrderInv
  <2>2. c \in Nat /\ Chapter \in Nat /\ s \in Nat
    BY <1>2, BookAssumption DEF Segments
  <2>3. ~(Chapter < c)
    <3>1. Chapter < c => Chapter \in 1..(c - 1)
      BY <1>2, <2>2
    <3>2. Batch.start \in Segments(Chapter)
      BY <1>3 DEF Segments
    <3>3. QED BY <1>4, <2>1, <3>1, <3>2 DEF AllBefore
  <2>4. ASSUME c = Chapter PROVE s < Batch.start
    <3>1. Batch.start < s => Batch.start \in 1..(s - 1)
      BY <1>3, <2>2
    <3>2. ~(Batch.start < s)
      BY <1>4, <2>1, <2>4, <3>1 DEF AllBefore
    <3>3. s # Batch.start
      BY <1>4, <1>5, <2>4
    <3>4. QED BY <1>3, <2>2, <3>2, <3>3
  <2>5. QED BY <2>2, <2>3, <2>4
<1>6. ASSUME NEW t \in bookTerms
      PROVE  /\ t = <<t[1], t[2]>> /\ t[1] \in 1..Chapter /\ t[2] \in 0..Length[t[1]] /\ Length[t[1]] # 0
             /\ t[1] = Chapter => t[2] \in 1..(Batch.start - 1)
  <2>1. PICK c \in 1..Chapters, s \in Nat : s \in 0..Length[c] /\ t = <<c, s>> /\ t[1] = c /\ t[2] = s
    BY BookAssumption DEF TermsInv, IsTerm
  <2>2. Length[c] \in Nat /\ c \in Nat /\ s \in Nat
    BY <2>1, BookAssumption
  <2>3. CASE s # 0
    <3>1. s \in Segments(c) /\ bookText[c][s] # NoText
      BY <2>1, <2>2, <2>3 DEF TermsInv, IsTerm, Segments
    <3>2. c <= Chapter /\ (c = Chapter => s < Batch.start)
      BY <1>5, <3>1
    <3>3. QED BY <1>2, <1>3, <2>1, <2>2, <2>3, <3>2
  <2>4. CASE s = 0
    <3>1. Length[c] # 0 /\ \A n \in Segments(c) : bookText[c][n] # NoText
      BY <2>1, <2>4 DEF TermsInv, IsTerm
    <3>2. 1 \in Segments(c)
      BY <2>2, <3>1 DEF Segments
    <3>3. c <= Chapter
      BY <1>5, <3>1, <3>2
    <3>4. c # Chapter
      BY <1>3, <1>4, <3>1 DEF Segments
    <3>5. QED BY <1>2, <2>1, <2>2, <3>1, <3>3, <3>4
  <2>5. QED BY <2>3, <2>4
<1>7. ASSUME NEW e \in 1..(Chapter - 1), Length[e] # 0, NEW s \in 0..Length[e]
      PROVE  <<e, s>> \in bookTerms
  <2>1. IsComplete(e) /\ e \in 1..Chapters
    BY <1>2, BeforeBatch
  <2>2. Length[e] \in Nat
    BY <2>1, BookAssumption
  <2>3. s # 0 => s \in Segments(e)
    BY <2>2 DEF Segments
  <2>4. QED BY <1>7, <2>1, <2>3 DEF IsComplete
<1>8. \A s \in 1..(Batch.start - 1) : <<Chapter, s>> \in bookTerms
  BY BeforeBatch
<1>9. QED BY <1>6, <1>7, <1>8 DEF InOrder


\* What a plan is made of depends on its chapter and its first paragraph alone.
Determined(plan) ==
    /\ InBudget(plan.chapter, plan.start, plan.count, bookSettings.size)
    /\ AllBefore(plan.chapter, plan.start)
    /\ InOrder(plan.terms, plan.chapter, plan.start)
    /\ plan.context = RecentContext(plan.chapter, bookText[plan.chapter], plan.start)
DeterminedInv ==
    ~bookVaried => /\ \A r \in bookCalls : Determined(r.plan)
                   /\ Planned => Determined(bookWork.plan)

LEMMA DeterminedStep ==
    ASSUME BookWorkInv, CountersInv, ReceiptsInv, ResultsInv, TextsInv, CopyInv, BatchesInv, TermsInv, CoverInv,
           StatusInv, SnapshotInv, PlansInv, SettingsInv, OrderInv, DeterminedInv, [BookNext]_bookVars
    PROVE  DeterminedInv'
<1>1. SUFFICES ASSUME ~bookVaried' PROVE DeterminedInv'
  BY DEF DeterminedInv
<1>2. /\ ~bookVaried /\ ~Edits
  BY <1>1, FilesStep DEF Edits
<1>3. \A c \in 1..Chapters : \A s \in Segments(c) : bookText[c][s] # NoText => bookText'[c][s] = bookText[c][s]
  <2>1. UNCHANGED bookText \/ bookEdits' = bookEdits
    BY <1>2, TextsStep DEF Fills, bookGhosts
  <2>2. QED BY <2>1, TextStays
<1>4. UNCHANGED bookSettings \/ (bookCalls = {} /\ ~Working)
  <2>1. CASE bookSettings = NoSettings
    BY <1>2, <2>1 DEF SettingsInv
  <2>2. CASE bookSettings # NoSettings
    <3>1. ASSUME NEW settings \in Settings, StartBook(settings) PROVE UNCHANGED bookSettings
      BY <2>2, <3>1 DEF StartBook
    <3>2. QED BY <3>1, FilesStep
  <2>3. QED BY <2>1, <2>2
<1>5. ASSUME NEW plan, IsPlan(plan), Determined(plan), UNCHANGED bookSettings PROVE Determined(plan)'
  <2>1. PICK c \in 1..Chapters, start \in Nat \ {0} : c = plan.chapter /\ start = plan.start
    BY <1>5 DEF IsPlan
  <2>2. start - 1 <= Length[c]
    <3>1. PICK count \in Nat \ {0} : count = plan.count
      BY <1>5 DEF IsPlan
    <3>2. start + count - 1 <= Length[c] /\ Length[c] \in Nat
      BY <1>5, <2>1, <3>1, BookAssumption DEF IsPlan
    <3>3. QED BY <3>2
  <2>3. AllBefore(c, start) /\ AllBefore(c, start)'
    BY <1>5, <2>1, <2>2, BeforeRemains DEF Determined
  <2>4. TextsInv'
    BY TextsStep
  <2>5. RecentContext(c, bookText[c], start)' = RecentContext(c, bookText[c], start)
    BY <1>3, <2>1, <2>2, <2>3, <2>4, ContextLater
  <2>6. plan.context = RecentContext(c, bookText[c], start)
    BY <1>5, <2>1 DEF Determined
  <2>7. plan.context = RecentContext(plan.chapter, bookText[plan.chapter], plan.start)'
    BY <2>1, <2>5, <2>6
  <2>8. QED BY <1>5, <2>1, <2>3, <2>7 DEF Determined
<1>6. ASSUME Planned' PROVE Determined(bookWork.plan)'
  <2>1. UNCHANGED bookSettings
    <3>1. ~Working => UNCHANGED bookVars \/ ~Planned'
      BY RunSteps, StartsWork DEF EditSegment, Planned, WorkGoes, Working
    <3>2. UNCHANGED bookVars => UNCHANGED bookSettings
      BY DEF bookVars, bookGhosts
    <3>3. QED BY <1>4, <1>6, <3>1, <3>2
  <2>2. PICK plan : plan = bookWork'.plan
    OBVIOUS
  <2>3. CASE Planned /\ KeepsPlan
    <3>1. IsPlan(plan) /\ Determined(plan)
      BY <1>2, <2>2, <2>3 DEF KeepsPlan, PlansInv, DeterminedInv
    <3>2. Determined(plan)'
      BY <1>5, <2>1, <3>1
    <3>3. QED BY <2>2, <3>2 DEF Determined
  <2>4. CASE /\ PlanBatch /\ Opened /\ bookWork.pc = "batch" /\ bookWork.batches # {} /\ ~Batch.done
             /\ IsBatch(Batch) /\ HasNone(Batch) /\ Chapter \in 1..Chapters
             /\ bookWork'.plan = CapturePlan(bookWork'.snapshot)
    <3>1. bookWork'.snapshot = bookTerms /\ bookWork.copy = bookText[Chapter] /\ bookWork.whole
          /\ Batch \in bookWork.batches
      BY <1>2, <2>4, PlansWork, LeastBatch DEF SnapshotInv, CopyInv, SettingsInv, Opened, Working
    <3>2. /\ plan.chapter = Chapter /\ plan.start = Batch.start /\ plan.count = Batch.count
          /\ plan.terms = bookTerms /\ plan.context = RecentContext(Chapter, bookText[Chapter], Batch.start)
      BY <2>2, <2>4, <3>1 DEF CapturePlan
    <3>3. InBudget(Chapter, Batch.start, Batch.count, bookSettings.size)
      BY <1>2, <2>4, <3>1 DEF SettingsInv
    <3>4. AllBefore(Chapter, Batch.start)
      BY <2>4, <3>1, BeforeBatch
    <3>5. InOrder(bookTerms, Chapter, Batch.start)
      BY <1>2, <2>4, <3>1, PlannedInOrder
    <3>6. Determined(plan)
      BY <3>2, <3>3, <3>4, <3>5 DEF Determined
    <3>7. IsPlan(plan)
      <4>1. PlansInv'
        BY PlansStep
      <4>2. QED BY <1>6, <2>2, <4>1 DEF PlansInv, IsPlan
    <3>8. Determined(plan)'
      BY <1>5, <2>1, <3>6, <3>7
    <3>9. QED BY <2>2, <3>8 DEF Determined
  <2>5. QED BY <1>6, <2>3, <2>4, PlannedStep
<1>7. ASSUME NEW r \in bookCalls' PROVE Determined(r.plan)'
  <2>1. CASE r \in bookCalls
    <3>1. IsPlan(r.plan) /\ Determined(r.plan) /\ UNCHANGED bookSettings
      BY <1>2, <1>4, <2>1 DEF PlansInv, DeterminedInv
    <3>2. PICK plan : plan = r.plan
      OBVIOUS
    <3>3. Determined(plan)'
      BY <1>5, <3>1, <3>2
    <3>4. QED BY <3>2, <3>3 DEF Determined
  <2>2. CASE r \notin bookCalls
    <3>1. Planned /\ r.plan = bookWork.plan /\ Working
      BY <1>7, <2>2, FilesStep DEF SynthesisAnswers, DraftAnswers, Planned, Working
    <3>2. PICK plan : plan = r.plan
      OBVIOUS
    <3>3. IsPlan(plan) /\ Determined(plan) /\ UNCHANGED bookSettings
      BY <1>2, <1>4, <3>1, <3>2 DEF PlansInv, DeterminedInv
    <3>4. Determined(plan)'
      BY <1>5, <3>3
    <3>5. QED BY <3>2, <3>4 DEF Determined
  <2>3. QED BY <2>1, <2>2
<1>8. QED BY <1>6, <1>7 DEF DeterminedInv


-----------------------------------------------------------------------------
(* TranslationBatches: the theorems                                         *)

\* The invariant: of the invocation, the receipts, the texts, the batches, the glossary
\* and the plans.
BookInv ==
    /\ BookWorkInv /\ CountersInv /\ DraftsInv /\ ReceiptsInv /\ ResultsInv /\ PublicationsInv
    /\ TextsInv /\ CopyInv /\ BatchesInv
    /\ TermsInv /\ CoverInv /\ BookKeysInv /\ StatusInv /\ SnapshotInv
    /\ ContextInv /\ PlansInv /\ FreshInv /\ ReconciledInv
    /\ SettingsInv /\ OrderInv /\ DeterminedInv

LEMMA BookStarts == BookInit => BookInv
<1> SUFFICES ASSUME BookInit PROVE BookInv
  OBVIOUS
<1> USE BookAssumption DEF BookInit, IdleWork
<1>1. bookWork.pc = "idle" /\ ~Working /\ ~Opened /\ ~Planned /\ ~Translated
  BY DEF Working, Opened, Planned, Translated
<1>2. BookWorkInv /\ CountersInv /\ DraftsInv /\ ReceiptsInv /\ ResultsInv /\ PublicationsInv
  BY <1>1 DEF BookWorkInv, BookPcs, CountersInv, DraftsInv, IdleDrafts, ReceiptsInv, ResultsInv,
     PublicationsInv
<1>3. \A c \in 1..Chapters : /\ bookText[c] \in Seq(Nat) /\ Len(bookText[c]) = Length[c]
                             /\ \A s \in Segments(c) : bookText[c][s] = NoText
  <2>1. SUFFICES ASSUME NEW c \in 1..Chapters
                 PROVE  /\ bookText[c] \in Seq(Nat) /\ Len(bookText[c]) = Length[c]
                        /\ \A s \in Segments(c) : bookText[c][s] = NoText
    OBVIOUS
  <2>2. bookText[c] = [s \in 1..Length[c] |-> 0] /\ Length[c] \in Nat
    BY DEF Segments, NoText
  <2>3. PICK n, texts : n \in Nat /\ n = Length[c] /\ texts = [s \in 1..n |-> 0] /\ texts = bookText[c]
    BY <2>2
  <2>4. texts \in Seq(Nat) /\ Len(texts) = n /\ \A s \in 1..n : texts[s] = 0
    BY <2>3
  <2>5. QED BY <2>3, <2>4 DEF Segments, NoText
<1>4. TextsInv /\ CopyInv /\ BatchesInv
  BY <1>1, <1>3 DEF TextsInv, CopyInv, BatchesInv
<1>5. TermsInv /\ CoverInv /\ BookKeysInv /\ StatusInv /\ SnapshotInv
  BY <1>1 DEF TermsInv, CoverInv, BookKeysInv, StatusInv, SnapshotInv
<1>6. ContextInv /\ PlansInv /\ FreshInv /\ ReconciledInv
  BY <1>1 DEF ContextInv, PlansInv, FreshInv, ReconciledInv
<1>7. SettingsInv /\ OrderInv /\ DeterminedInv
  BY <1>1, <1>3 DEF SettingsInv, OrderInv, DeterminedInv
<1>8. QED BY <1>2, <1>4, <1>5, <1>6, <1>7 DEF BookInv

LEMMA BookGoesOn ==
    ASSUME BookInv, [BookNext]_bookVars
    PROVE  BookInv'
<1> USE DEF BookInv
<1>1. BookWorkInv' /\ CountersInv' /\ DraftsInv' /\ ReceiptsInv' /\ ResultsInv' /\ PublicationsInv'
  BY WorkStep, CountersStep, DraftsStep, ReceiptsStep, ResultsStep, PublicationsStep
<1>2. TextsInv' /\ CopyInv' /\ BatchesInv'
  BY TextsStep, BatchesStep
<1>3. TermsInv' /\ CoverInv' /\ BookKeysInv' /\ StatusInv' /\ SnapshotInv'
  BY TermsStep, CoverStep, KeysStep, StatusStep, SnapshotStep
<1>4. ContextInv' /\ PlansInv' /\ FreshInv' /\ ReconciledInv'
  BY ContextStep, PlansStep, FreshStep, ReconciledStep
<1>5. SettingsInv' /\ OrderInv' /\ DeterminedInv'
  BY SettingsStep, OrderStep, DeterminedStep
<1>6. QED BY <1>1, <1>2, <1>3, <1>4, <1>5

LEMMA BookTyped == BookInv => BookTypeOK
<1> SUFFICES ASSUME BookInv PROVE BookTypeOK
  OBVIOUS
<1> USE DEF BookInv
<1>1. \A t \in bookTerms : t[1] \in 1..Chapters /\ t[2] \in 0..Length[t[1]]
  BY DEF TermsInv, IsTerm
<1>2. ASSUME NEW k \in bookKeys
      PROVE  k[1] \in 1..Chapters /\ k[2] + k[3] - 1 \in Segments(k[1])
  <2>1. /\ k[1] \in 1..Chapters /\ k[2] \in Nat \ {0} /\ k[3] \in Nat \ {0}
        /\ k[2] + k[3] - 1 <= Length[k[1]]
    BY <1>2 DEF BookKeysInv, IsKey
  <2>2. PICK from \in Nat \ {0}, count \in Nat \ {0} : from = k[2] /\ count = k[3]
    BY <2>1
  <2>3. from + count - 1 <= Length[k[1]] /\ Length[k[1]] \in Nat
    BY <2>1, <2>2, BookAssumption
  <2>4. from + count - 1 \in 1..Length[k[1]]
    BY <2>3
  <2>5. QED BY <2>1, <2>2, <2>4 DEF Segments
<1>3. Working => /\ bookWork.todo \subseteq 1..Chapters
                 /\ bookWork.pc = "batch" /\ bookWork.batches # {} => Batch.count > 0
  <2>1. Working => bookWork.todo \subseteq 1..Chapters
    BY DEF BookWorkInv
  <2>2. ASSUME bookWork.pc = "batch", bookWork.batches # {} PROVE Batch.count > 0
    <3>1. IsBatch(Batch)
      BY <2>2, LeastBatch DEF Opened
    <3>2. QED BY <3>1 DEF IsBatch
  <2>3. QED BY <2>1, <2>2
<1>4. bookText \in [1..Chapters -> Seq(Nat)] /\ \A c \in 1..Chapters : Len(bookText[c]) = Length[c]
  BY DEF TextsInv
<1>5. bookStatus \in [1..Chapters -> {"pending", "done"}]
  BY DEF StatusInv
<1>6. bookWork.pc \in BookPcs
  BY DEF BookWorkInv
<1>7. bookDrafts \in [DraftIds -> {"idle", "recovered", "calling", "received", "bound", "failed"}]
  BY DEF DraftsInv
<1>8. /\ \A r, t \in bookCalls : r.plan = t.plan /\ r.stage = t.stage => r = t
      /\ \A p, q \in bookResults : p.plan = q.plan => p = q
      /\ \A p, q \in bookPublications : p.plan = q.plan => p = q
  BY DEF ReceiptsInv, ResultsInv, PublicationsInv
<1>9. QED
  BY <1>1, <1>2, <1>3, <1>4, <1>5, <1>6, <1>7, <1>8 DEF BookTypeOK, BookPcs, CountersInv

LEMMA BookExact == BookInv => ResumptionIsExact
<1> SUFFICES ASSUME BookInv PROVE ResumptionIsExact
  OBVIOUS
<1> USE DEF BookInv
<1>1. ASSUME bookWork.pc \in {"request", "reuse"}
      PROVE  /\ Opened /\ bookWork.batches # {} /\ IsBatch(Batch) /\ HasNone(Batch) /\ Chapter \in 1..Chapters
             /\ Span(bookWork.plan) = Span(Batch)
  <2>1. Opened /\ Planned /\ ~Translated /\ Working
    BY <1>1 DEF Opened, Planned, Translated, Working
  <2>2. QED BY <2>1, LeastBatch, ChapterIsLeast DEF BatchesInv, Span, BookWorkInv, Opened
<1>2. NothingIsPaidTwice
  BY <1>1 DEF NothingIsPaidTwice, DraftsInv, HasNone
<1>3. ASSUME ~bookVaried, NEW r \in bookCalls, NEW t \in bookCalls,
             r.plan.chapter = t.plan.chapter, r.plan.start = t.plan.start
      PROVE  r.plan = t.plan
  <2>1. PICK p, q : p = r.plan /\ q = t.plan
    OBVIOUS
  <2>2. IsPlan(p) /\ IsPlan(q) /\ Determined(p) /\ Determined(q) /\ p.chapter = q.chapter /\ p.start = q.start
    BY <1>3, <2>1 DEF PlansInv, DeterminedInv
  <2>3. p.count = q.count
    <3>1. PICK start \in Nat, m \in Nat, n \in Nat : start = p.start /\ m = p.count /\ n = q.count
      BY <2>2 DEF IsPlan
    <3>2. start + m = start + n
      BY <2>2, <3>1 DEF Determined, InBudget
    <3>3. QED BY <3>1, <3>2
  <2>4. p.terms = q.terms
    <3>1. PICK c \in Nat : c = p.chapter
      BY <2>2 DEF IsPlan
    <3>2. InOrder(p.terms, c, p.start) /\ InOrder(q.terms, c, p.start)
      BY <2>2, <3>1 DEF Determined
    <3>3. p.terms \subseteq q.terms /\ q.terms \subseteq p.terms
      BY <3>1, <3>2, InOrderIsOne
    <3>4. QED BY <3>3
  <2>5. p.context = q.context
    BY <2>2 DEF Determined
  <2>6. p = q
    BY <2>2, <2>3, <2>4, <2>5 DEF IsPlan
  <2>7. QED BY <2>1, <2>6
<1>4. PlansAreReproducible
  BY <1>3 DEF PlansAreReproducible
<1>5. ContextIsComplete
  BY <1>1, BeforeBatch DEF ContextIsComplete, ContextInv, AllBefore
<1>6. DoneIsComplete
  <2>1. SUFFICES ASSUME NEW c \in 1..Chapters, bookStatus[c] = "done", NEW s \in Segments(c)
                 PROVE  bookText[c][s] # NoText /\ <<c, s>> \in bookTerms
    BY DEF DoneIsComplete
  <2>2. PICK t : t = <<c, s>>
    OBVIOUS
  <2>3. t \in bookTerms /\ t[1] = c /\ t[2] = s
    BY <2>1, <2>2 DEF StatusInv, IsComplete
  <2>4. s # 0
    BY BookAssumption DEF Segments
  <2>5. QED BY <2>2, <2>3, <2>4 DEF TermsInv, IsTerm
<1>7. DoneIsReconciled
  BY DEF DoneIsReconciled, ReconciledInv, IsReached
<1>8. QED BY <1>2, <1>4, <1>5, <1>6, <1>7 DEF ResumptionIsExact

\* The invariant of a book that is translated.
THEOREM BookInvariant == BookSpec => []BookInv
BY BookStarts, BookGoesOn, PTL DEF BookSpec

\* A resumed book goes on where it was (the receipts of translation/service.py and
\* translation/precision.py, the plans, the context, the chapters that are done).
THEOREM ResumedExactly == BookSpec => [](BookTypeOK /\ ResumptionIsExact)
BY BookInvariant, BookTyped, BookExact, PTL

\* The program never replaces a text of a chapter.
THEOREM TextIsKept == BookSpec => FormalTextIsKept
<1>1. ASSUME BookInv, [BookNext]_bookVars
      PROVE  [\A c \in 1..Chapters : \A s \in Segments(c) :
                bookText[c][s] # NoText /\ bookEdits' = bookEdits =>
                   bookText'[c][s] = bookText[c][s]]_bookVars
  BY <1>1, TextStays DEF BookInv
<1>2. QED BY <1>1, BookInvariant, PTL DEF BookSpec, FormalTextIsKept

================================================================================
