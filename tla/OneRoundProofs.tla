--------------------------- MODULE OneRoundProofs ---------------------------
(***************************************************************************)
(* What OneRound promises, for any clients, servers, keys, payloads and    *)
(* configurations, and slices of any length: a round opens only if it is   *)
(* whole, and yields what was handed in for it.                            *)
(*                                                                         *)
(* The argument is a count.  The coefficient of a term in the sum is the   *)
(* number of contributions it is in less the number of shares it is in, at *)
(* every step of combine_round; a pad that is gone is therefore in as many *)
(* of the ones as of the others, and an entry that is there once is of one *)
(* contribution.                                                           *)
(***************************************************************************)
EXTENDS OneRound, FiniteSetTheorems, FunctionTheorems, TLAPS

-----------------------------------------------------------------------------
(***************************************************************************)
(* Framing.                                                                *)
(***************************************************************************)
\* The frame has room for every payload that fits: xi is rounded up.
LEMMA FrameHasRoom ==
  ASSUME NEW cfg \in Configs
  PROVE  /\ xi(cfg) * PACK_BYTES \in Nat
         /\ cfg.max_payload_bytes + 1 <= xi(cfg) * PACK_BYTES
<1> DEFINE B == PACK_BYTES
           n == cfg.max_payload_bytes + 1 + B - 1
<1>1. B \in Nat \ {0} /\ cfg.max_payload_bytes \in Nat
  BY ConfigAssumption
<1>2. n \in Nat /\ n = cfg.max_payload_bytes + B
  BY <1>1
<1> HIDE DEF B, n
<1>3. n = B * (n \div B) + (n % B) /\ n % B \in 0 .. B - 1 /\ n \div B \in Nat
  BY <1>1, <1>2
<1> DEFINE q == n \div B
           m == n % B
<1>4. q \in Nat /\ m \in Int /\ m <= B - 1 /\ n = B * q + m
  BY <1>1, <1>3
<1> HIDE DEF q, m
<1>5. B * q \in Nat /\ q * B = B * q
  BY <1>1, <1>4
<1>6. cfg.max_payload_bytes + 1 <= q * B
  BY <1>1, <1>2, <1>4, <1>5
<1>7. q = xi(cfg)
  BY DEF q, n, B, xi, LENGTH_PREFIX_BYTES
<1> QED BY <1>1, <1>5, <1>6, <1>7 DEF B

\* What is framed comes out of the frame, byte by byte.
LEMMA UnframedIsPayload ==
  ASSUME NEW cfg \in Configs, NEW p \in Seq(Nat), Fits(cfg, p)
  PROVE  /\ Framed(cfg, p)[1] = Len(p)
         /\ Unframed(Framed(cfg, p)) = p
<1> DEFINE n == xi(cfg) * PACK_BYTES
           f == Framed(cfg, p)
<1>1. n \in Nat /\ cfg.max_payload_bytes + 1 <= n /\ cfg.max_payload_bytes \in Nat
  BY FrameHasRoom, ConfigAssumption
<1>2. Len(p) \in Nat /\ Len(p) + 1 <= n /\ DOMAIN p = 1 .. Len(p)
  BY <1>1 DEF Fits
<1>3. f = [k \in 1 .. n |-> IF k = 1 THEN Len(p)
                            ELSE IF k - 1 \in DOMAIN p THEN p[k - 1] ELSE 0]
  BY DEF Framed, LENGTH_PREFIX_BYTES
<1> HIDE DEF n, f
<1>4. f[1] = Len(p)
  BY <1>1, <1>2, <1>3
<1>5. \A i \in 1 .. Len(p) : f[i + 1] = p[i]
  BY <1>1, <1>2, <1>3
<1>6. f \in Seq(Nat) /\ Len(f) = n
  <2>1. f \in [1 .. n -> Nat]
    BY <1>1, <1>2, <1>3
  <2> QED BY <1>1, <2>1
<1>7. Unframed(f) = SubSeq(f, 2, 1 + Len(p))
  BY <1>4 DEF Unframed, LENGTH_PREFIX_BYTES
<1>8. SubSeq(f, 2, 1 + Len(p)) = [i \in 1 .. Len(p) |-> f[i + 1]]
  BY <1>1, <1>2, <1>6
<1>9. [i \in 1 .. Len(p) |-> f[i + 1]] = p
  BY <1>2, <1>5
<1> QED BY <1>4, <1>7, <1>8, <1>9 DEF f

-----------------------------------------------------------------------------
(***************************************************************************)
(* The inductive invariant.                                                *)
(***************************************************************************)
Contributions ==
  [signer : Clients, cfg : Configs, round : Rounds, shared_secrets : SUBSET Servers,
   payload : Seq(Nat) \cup {None}, entry : Drafts \cup {None}]

Shares ==
  [server_id : Servers, cfg : Configs, round : Rounds, shared_secrets : SUBSET Clients]

\* What a client makes of its payload: nothing, or an entry with its frame.
Encoded(m) ==
  /\ m.payload = None <=> m.entry = None
  /\ m.payload # None => /\ Fits(m.cfg, m.payload)
                         /\ m.entry[2] = Framed(m.cfg, m.payload)

SlicesOK ==
  /\ clients \in Seq(Contributions) /\ servers \in Seq(Shares)
  /\ \A i \in DOMAIN clients : Encoded(clients[i])

\* What a contribution and a share are the sums of.
Terms(m) ==
  (IF m.entry = None THEN {} ELSE {Content(m.signer, m.round, m.entry)})
    \cup PadSet({m.signer}, m.shared_secrets, m.round)

ShareTerms(m) == PadSet(m.shared_secrets, {m.server_id}, m.round)

\* The first n contributions, and shares, that x is in.
Holding(x, n) == {i \in 1 .. n : i \in DOMAIN clients /\ x \in Terms(clients[i])}
Taking(x, n)  == {j \in 1 .. n : j \in DOMAIN servers /\ x \in ShareTerms(servers[j])}

Count(x, n, k) == Cardinality(Holding(x, n)) - Cardinality(Taking(x, k))

\* combine_round at work: its vector is the count of every term.
CallOK ==
  call # None =>
    /\ result = None
    /\ CanCombine(call.args)
    /\ call.summed \in 0 .. Len(clients) /\ call.subtracted \in 0 .. Len(servers)
    /\ call.summed < Len(clients) => call.subtracted = 0
    /\ call.dst = [x \in Term |-> Count(x, call.summed, call.subtracted)]

\* What is left when all are counted.
Total(x) == Count(x, Len(clients), Len(servers))
Left     == {x \in Contents : Total(x) # 0}

\* What combine_round returned, and what that says of the slices.
ResultOK ==
  result # None =>
    LET z == result.args
        clean  == \A x \in Pads : Total(x) = 0
        single == \A x \in Left : Total(x) = 1
        framed == \A x \in Left : FramingIsValid(z.cfg, x[4][2])
    IN  \/ result.status = "Refused" /\ ~CanCombine(z)
        \/ /\ CanCombine(z)
           /\ \/ /\ result.status = "Ok" /\ clean /\ single /\ framed
                 /\ result.payloads = Unframe(Left)
              \/ result.status = "BadFraming" /\ ~framed
              \/ result.status = "IbltError" /\ (clean /\ single => Cardinality(Left) > 1)

IInv == SlicesOK /\ CallOK /\ ResultOK

-----------------------------------------------------------------------------
(***************************************************************************)
(* Counting.                                                               *)
(***************************************************************************)
\* The operations speak of these sets.
LEMMA SumsOfTerms ==
  /\ \A m : Blinded(m) = Sum(Terms(m))
  /\ \A m : Share(m) = Sum(ShareTerms(m))
BY DEF Blinded, Terms, Share, ShareTerms

\* What is held, or taken, are some of the first n.
LEMMA Finite ==
  ASSUME NEW x, NEW n \in Nat
  PROVE  /\ IsFiniteSet(Holding(x, n)) /\ Cardinality(Holding(x, n)) \in Nat
         /\ IsFiniteSet(Taking(x, n)) /\ Cardinality(Taking(x, n)) \in Nat
<1>1. IsFiniteSet(1 .. n)
  BY FS_Interval
<1>2. Holding(x, n) \in SUBSET (1 .. n) /\ Taking(x, n) \in SUBSET (1 .. n)
  BY DEF Holding, Taking
<1>3. IsFiniteSet(Holding(x, n)) /\ IsFiniteSet(Taking(x, n))
  BY <1>1, <1>2, FS_Subset
<1> QED BY <1>3, FS_CardinalityType

\* Nothing is counted before the loops start.
LEMMA CountNothing == \A x : Count(x, 0, 0) = 0
<1> TAKE x
<1>1. Holding(x, 0) = {} /\ Taking(x, 0) = {}
  BY DEF Holding, Taking
<1> QED BY <1>1, FS_EmptySet DEF Count

\* One more contribution counts once more for the terms it is the sum of.
LEMMA CountContribution ==
  ASSUME NEW x \in Term, NEW n \in Nat, n + 1 \in DOMAIN clients
  PROVE  Count(x, n + 1, 0) = Count(x, n, 0) + Sum(Terms(clients[n + 1]))[x]
<1>1. n + 1 \notin Holding(x, n) /\ n + 1 \in Nat
  BY DEF Holding
<1>2. Taking(x, 0) = {}
  BY DEF Taking
<1>3. IsFiniteSet(Holding(x, n)) /\ Cardinality(Holding(x, n)) \in Nat
  BY Finite
<1>4. Cardinality(Taking(x, 0)) = 0
  BY <1>2, FS_EmptySet
<1>5. CASE x \in Terms(clients[n + 1])
  <2>1. Holding(x, n + 1) = Holding(x, n) \cup {n + 1}
    BY <1>5 DEF Holding
  <2>2. Cardinality(Holding(x, n + 1)) = Cardinality(Holding(x, n)) + 1
    BY <1>1, <1>3, <2>1, FS_AddElement
  <2>3. Sum(Terms(clients[n + 1]))[x] = 1
    BY <1>5 DEF Sum
  <2> QED BY <1>3, <1>4, <2>2, <2>3 DEF Count
<1>6. CASE x \notin Terms(clients[n + 1])
  <2>1. Holding(x, n + 1) = Holding(x, n)
    BY <1>6 DEF Holding
  <2>2. Sum(Terms(clients[n + 1]))[x] = 0
    BY <1>6 DEF Sum
  <2> QED BY <1>3, <1>4, <2>1, <2>2 DEF Count
<1> QED BY <1>5, <1>6

\* One more share takes them off once.
LEMMA CountShare ==
  ASSUME NEW x \in Term, NEW n \in Nat, NEW k \in Nat, k + 1 \in DOMAIN servers
  PROVE  Count(x, n, k + 1) = Count(x, n, k) - Sum(ShareTerms(servers[k + 1]))[x]
<1>1. k + 1 \notin Taking(x, k) /\ k + 1 \in Nat
  BY DEF Taking
<1>2. Cardinality(Holding(x, n)) \in Nat
  BY Finite
<1>3. IsFiniteSet(Taking(x, k)) /\ Cardinality(Taking(x, k)) \in Nat
  BY Finite
<1>5. CASE x \in ShareTerms(servers[k + 1])
  <2>1. Taking(x, k + 1) = Taking(x, k) \cup {k + 1}
    BY <1>5 DEF Taking
  <2>2. Cardinality(Taking(x, k + 1)) = Cardinality(Taking(x, k)) + 1
    BY <1>1, <1>3, <2>1, FS_AddElement
  <2>3. Sum(ShareTerms(servers[k + 1]))[x] = 1
    BY <1>5 DEF Sum
  <2> QED BY <1>2, <1>3, <2>2, <2>3 DEF Count
<1>6. CASE x \notin ShareTerms(servers[k + 1])
  <2>1. Taking(x, k + 1) = Taking(x, k)
    BY <1>6 DEF Taking
  <2>2. Sum(ShareTerms(servers[k + 1]))[x] = 0
    BY <1>6 DEF Sum
  <2> QED BY <1>2, <1>3, <2>1, <2>2 DEF Count
<1> QED BY <1>5, <1>6

-----------------------------------------------------------------------------
(***************************************************************************)
(* The steps.                                                              *)
(***************************************************************************)
\* What is counted depends on the slices only.
LEMMA SameSlices ==
  ASSUME UNCHANGED <<clients, servers>>
  PROVE  /\ SlicesOK => SlicesOK'
         /\ \A x, n, k : Count(x, n, k)' = Count(x, n, k)
         /\ \A x : Total(x)' = Total(x)
         /\ Left' = Left
         /\ \A z : CanCombine(z)' <=> CanCombine(z)
<1>1. \A x, n : Holding(x, n)' = Holding(x, n) /\ Taking(x, n)' = Taking(x, n)
  BY DEF Holding, Taking
<1>2. \A x, n, k : Count(x, n, k)' = Count(x, n, k)
  BY <1>1 DEF Count
<1>3. \A x : Total(x)' = Total(x)
  BY <1>2 DEF Total
<1>4. Left' = Left
  BY <1>3 DEF Left
<1>5. \A z : CanCombine(z)' <=> CanCombine(z)
  BY DEF CanCombine, ServersAreDistinct, RoundsMatch, LengthsMatch
<1> QED BY <1>2, <1>3, <1>4, <1>5 DEF SlicesOK

\* What is appended comes last.
LEMMA AppendFacts ==
  ASSUME NEW S, NEW s \in Seq(S), NEW e \in S
  PROVE  /\ Append(s, e) \in Seq(S)
         /\ \A i \in DOMAIN Append(s, e) :
              Append(s, e)[i] = e \/ (i \in DOMAIN s /\ Append(s, e)[i] = s[i])
<1> DEFINE t == Append(s, e)
<1>1. t \in Seq(S) /\ Len(t) = Len(s) + 1 /\ Len(s) \in Nat
  OBVIOUS
<1>2. DOMAIN t = 1 .. Len(t) /\ DOMAIN s = 1 .. Len(s)
  BY <1>1
<1>3. \A i \in 1 .. Len(s) : t[i] = s[i]
  OBVIOUS
<1>4. t[Len(s) + 1] = e
  OBVIOUS
<1> HIDE DEF t
<1>5. \A i \in 1 .. Len(t) : i = Len(s) + 1 \/ i \in 1 .. Len(s)
  BY <1>1
<1>6. \A i \in 1 .. Len(t) : t[i] = e \/ (i \in 1 .. Len(s) /\ t[i] = s[i])
  <2> SUFFICES ASSUME NEW i \in 1 .. Len(t)
               PROVE  t[i] = e \/ (i \in 1 .. Len(s) /\ t[i] = s[i])
    OBVIOUS
  <2>1. CASE i = Len(s) + 1
    BY <2>1, <1>4
  <2>2. CASE i \in 1 .. Len(s)
    BY <2>2, <1>3
  <2> QED BY <2>1, <2>2, <1>5
<1>7. t \in Seq(S) /\ \A i \in DOMAIN t : t[i] = e \/ (i \in DOMAIN s /\ t[i] = s[i])
  BY <1>1, <1>2, <1>6
<1> QED BY <1>7 DEF t

\* Contributions and shares are what the calls make them.
LEMMA SlicesGrow ==
  ASSUME SlicesOK,
         \/ \E x \in ClientCalls : client_contribute(x)
         \/ \E i \in DOMAIN clients : deliver_again(i)
         \/ \E y \in ServerCalls : server_contribute(y)
  PROVE  IInv'
<1>1. SlicesOK'
  <2>1. ASSUME NEW x \in ClientCalls, client_contribute(x)
        PROVE  SlicesOK'
    <3> DEFINE key == Len(clients) + 1
               m == ClientContribution(x, key)
    <3>1. key \in 1 .. MaxContributions
      BY <2>1, CallAssumption DEF client_contribute, SlicesOK
    <3>2. x.payload # None =>
            /\ x.payload \in Seq(Nat) /\ Fits(x.cfg, x.payload)
            /\ <<key, Framed(x.cfg, x.payload)>> \in Drafts
            /\ <<key, Framed(x.cfg, x.payload)>> # None
      BY <2>1, <3>1, CallAssumption DEF client_contribute
    <3>3. x.client \in Clients /\ x.cfg \in Configs /\ x.round \in Rounds
          /\ x.servers \in SUBSET Servers
      BY CallAssumption
    <3>4. m \in Contributions /\ Encoded(m)
      <4>1. /\ m.payload = x.payload /\ m.cfg = x.cfg
            /\ x.payload = None => m.entry = None
            /\ x.payload # None => m.entry = <<key, Framed(x.cfg, x.payload)>>
        BY DEF ClientContribution
      <4>2. Encoded(m)
        BY <4>1, <3>2 DEF Encoded
      <4>3. /\ x.payload \in Seq(Nat) \cup {None}
            /\ (IF x.payload = None THEN None ELSE <<key, Framed(x.cfg, x.payload)>>)
                 \in Drafts \cup {None}
        BY <3>2
      <4>4. m \in Contributions
        BY <4>3, <3>3 DEF ClientContribution, Contributions
      <4> QED BY <4>2, <4>4
    <3> HIDE DEF m
    <3>5. clients' = Append(clients, m) /\ servers' = servers
      BY <2>1 DEF client_contribute, m
    <3>6. \A i \in DOMAIN clients' :
            clients'[i] = m \/ (i \in DOMAIN clients /\ clients'[i] = clients[i])
      BY <3>4, <3>5, AppendFacts DEF SlicesOK
    <3> QED BY <3>4, <3>5, <3>6 DEF SlicesOK, Encoded
  <2>2. ASSUME NEW i \in DOMAIN clients, deliver_again(i)
        PROVE  SlicesOK'
    <3> DEFINE m == clients[i]
    <3>1. m \in Contributions /\ Encoded(m)
      BY DEF SlicesOK
    <3> HIDE DEF m
    <3>2. clients' = Append(clients, m) /\ servers' = servers
      BY <2>2 DEF deliver_again, m
    <3>3. \A j \in DOMAIN clients' :
            clients'[j] = m \/ (j \in DOMAIN clients /\ clients'[j] = clients[j])
      BY <3>1, <3>2, AppendFacts DEF SlicesOK
    <3> QED BY <3>1, <3>2, <3>3 DEF SlicesOK, Encoded
  <2>3. ASSUME NEW y \in ServerCalls, server_contribute(y)
        PROVE  SlicesOK'
    <3>1. ServerShare(y) \in Shares
      BY CallAssumption DEF ServerShare, Shares
    <3> QED BY <3>1, <2>3 DEF server_contribute, SlicesOK, Encoded
  <2> QED BY <2>1, <2>2, <2>3
<1>2. call' = None /\ result' = None
  BY DEF client_contribute, deliver_again, server_contribute, Gathering
<1> QED BY <1>1, <1>2 DEF IInv, CallOK, ResultOK

\* combine_round starts to count, or refuses.
LEMMA CombineStarts ==
  ASSUME IInv, NEW z \in CombineCalls, combine_round(z)
  PROVE  IInv'
<1>1. UNCHANGED <<clients, servers>> /\ call = None /\ result = None
  BY DEF combine_round, Gathering
<1>2. SlicesOK'
  BY <1>1, SameSlices DEF IInv
<1>3. CASE CanCombine(z)
  <2>1. call' = [args |-> z, summed |-> 0, subtracted |-> 0, dst |-> ZeroVector]
        /\ result' = None
    BY <1>1, <1>3 DEF combine_round
  <2>2. call'.args = z /\ call'.summed = 0 /\ call'.subtracted = 0 /\ call'.dst = ZeroVector
    BY <2>1
  <2>3. ZeroVector = [x \in Term |-> Count(x, 0, 0)']
    BY <1>1, CountNothing, SameSlices DEF ZeroVector
  <2>4. Len(clients') \in Nat /\ Len(servers') \in Nat
    BY <1>2 DEF SlicesOK
  <2>5. CallOK'
    BY <1>1, <1>3, <2>1, <2>2, <2>3, <2>4, SameSlices DEF CallOK
  <2> QED BY <1>2, <2>1, <2>5 DEF IInv, ResultOK
<1>4. CASE ~CanCombine(z)
  <2>1. call' = None /\ result'.args = z /\ result'.status = "Refused"
    BY <1>4 DEF combine_round, Return
  <2>2. ~CanCombine(z)'
    BY <1>1, <1>4, SameSlices
  <2> QED BY <1>2, <2>1, <2>2 DEF IInv, CallOK, ResultOK
<1> QED BY <1>3, <1>4

\* The lengths were compared before the loops: their assertions hold.
LEMMA NoPanic ==
  ASSUME SlicesOK, CanCombine(call.args)
  PROVE  /\ \A i \in DOMAIN clients : LengthsAgree(clients[i].cfg)
         /\ \A j \in DOMAIN servers : LengthsAgree(servers[j].cfg)
BY DEF CanCombine, LengthsMatch, LengthsAgree

\* One more contribution is added.
LEMMA ContributionAdded ==
  ASSUME IInv, aggregate_client
  PROVE  IInv'
<1>0. call.summed \in Nat
  BY DEF aggregate_client, IInv, CallOK
<1> PICK n \in Nat : n = call.summed
  BY <1>0
<1> DEFINE m == clients[n + 1]
<1>1. /\ call # None /\ n < Len(clients) /\ UNCHANGED <<clients, servers>>
      /\ result = None /\ CanCombine(call.args) /\ call.subtracted = 0
      /\ call.dst = [x \in Term |-> Count(x, n, 0)]
  BY DEF aggregate_client, IInv, CallOK
<1>2. n \in Nat /\ n + 1 \in DOMAIN clients /\ Len(clients) \in Nat /\ Len(servers) \in Nat
  BY <1>1 DEF IInv, CallOK, SlicesOK
<1>3. LengthsAgree(m.cfg)
  BY <1>1, <1>2, NoPanic DEF IInv
<1>4. /\ call' = [args |-> call.args, summed |-> n + 1, subtracted |-> 0,
                  dst |-> Add(call.dst, Blinded(m))]
      /\ result' = None
  BY <1>1, <1>3 DEF aggregate_client
<1>5. /\ call'.args = call.args /\ call'.summed = n + 1 /\ call'.subtracted = 0
      /\ call'.dst = Add(call.dst, Blinded(m))
  BY <1>4
<1>6. Add(call.dst, Blinded(m)) = [x \in Term |-> Count(x, n + 1, 0)]
  <2>1. Blinded(m) = Sum(Terms(m))
    BY SumsOfTerms
  <2>2. \A x \in Term : Count(x, n + 1, 0) = Count(x, n, 0) + Sum(Terms(m))[x]
    BY <1>2, CountContribution
  <2> QED BY <1>1, <2>1, <2>2 DEF Add
<1>7. call'.dst = [x \in Term |-> Count(x, n + 1, 0)']
  BY <1>1, <1>5, <1>6, SameSlices
<1>8. CallOK'
  BY <1>1, <1>2, <1>4, <1>5, <1>7, SameSlices DEF CallOK
<1> QED BY <1>1, <1>4, <1>8, SameSlices DEF IInv, ResultOK

\* One more share is taken off.
LEMMA ShareTakenOff ==
  ASSUME IInv, combine_partial
  PROVE  IInv'
<1>0. call.summed \in Nat /\ call.subtracted \in Nat
  BY DEF combine_partial, IInv, CallOK
<1> PICK n \in Nat, k \in Nat : n = call.summed /\ k = call.subtracted
  BY <1>0
<1> DEFINE m == servers[k + 1]
<1>1. /\ call # None /\ n = Len(clients) /\ k < Len(servers)
      /\ UNCHANGED <<clients, servers>>
      /\ result = None /\ CanCombine(call.args)
      /\ call.dst = [x \in Term |-> Count(x, n, k)]
  BY DEF combine_partial, IInv, CallOK
<1>2. n \in Nat /\ k \in Nat /\ k + 1 \in DOMAIN servers /\ Len(servers) \in Nat
  BY <1>1 DEF IInv, CallOK, SlicesOK
<1>3. LengthsAgree(m.cfg)
  BY <1>1, <1>2, NoPanic DEF IInv
<1>4. /\ call' = [args |-> call.args, summed |-> n, subtracted |-> k + 1,
                  dst |-> Sub(call.dst, Share(m))]
      /\ result' = None
  BY <1>1, <1>3 DEF combine_partial
<1>5. /\ call'.args = call.args /\ call'.summed = n /\ call'.subtracted = k + 1
      /\ call'.dst = Sub(call.dst, Share(m))
  BY <1>4
<1>6. Sub(call.dst, Share(m)) = [x \in Term |-> Count(x, n, k + 1)]
  <2>1. Share(m) = Sum(ShareTerms(m))
    BY SumsOfTerms
  <2>2. \A x \in Term : Count(x, n, k + 1) = Count(x, n, k) - Sum(ShareTerms(m))[x]
    BY <1>2, CountShare
  <2> QED BY <1>1, <2>1, <2>2 DEF Sub
<1>7. call'.dst = [x \in Term |-> Count(x, n, k + 1)']
  BY <1>1, <1>5, <1>6, SameSlices
<1>8. CallOK'
  BY <1>1, <1>2, <1>4, <1>5, <1>7, SameSlices DEF CallOK
<1> QED BY <1>1, <1>4, <1>8, SameSlices DEF IInv, ResultOK

\* When all are counted, the call's vector is the total.
LEMMA RecoveredIsTotal ==
  ASSUME IInv, Recovered
  PROVE  /\ CanCombine(call.args) /\ result = None
         /\ \A x \in Term : call.dst[x] = Total(x)
         /\ NoPadLeft <=> \A x \in Pads : Total(x) = 0
         /\ Entries = Left
         /\ EachOnce <=> \A x \in Left : Total(x) = 1
<1>1. /\ CanCombine(call.args) /\ result = None
      /\ call.dst = [x \in Term |-> Total(x)]
  BY DEF IInv, CallOK, Recovered, Total
<1>2. \A x \in Term : call.dst[x] = Total(x)
  BY <1>1
<1>3. \A x : x \in Pads \/ x \in Contents => x \in Term
  BY DEF Term
<1>4. Entries = Left
  BY <1>2, <1>3 DEF Entries, Left
<1>5. \A x \in Left : x \in Contents
  BY DEF Left
<1>6. NoPadLeft <=> \A x \in Pads : Total(x) = 0
  BY <1>2, <1>3 DEF NoPadLeft
<1>7. EachOnce <=> \A x \in Left : Total(x) = 1
  BY <1>2, <1>3, <1>4, <1>5 DEF EachOnce
<1> QED BY <1>1, <1>2, <1>4, <1>6, <1>7

\* combine_round ends with what the total says.
LEMMA CallEnds ==
  ASSUME IInv, decode_round \/ fail_to_decode
  PROVE  IInv'
<1> DEFINE z == call.args
<1>1. UNCHANGED <<clients, servers>> /\ call' = None /\ Recovered
  BY DEF decode_round, fail_to_decode, Return
<1>2. /\ CanCombine(z) /\ result = None
      /\ NoPadLeft <=> \A x \in Pads : Total(x) = 0
      /\ Entries = Left
      /\ EachOnce <=> \A x \in Left : Total(x) = 1
  BY <1>1, RecoveredIsTotal
<1> DEFINE clean  == \A x \in Pads : Total(x) = 0
           single == \A x \in Left : Total(x) = 1
           framed == \A x \in Left : FramingIsValid(z.cfg, x[4][2])
<1>3. /\ result'.args = z
      /\ \/ /\ result'.status = "Ok" /\ clean /\ single /\ framed
            /\ result'.payloads = Unframe(Left)
         \/ result'.status = "BadFraming" /\ ~framed
         \/ result'.status = "IbltError" /\ (clean /\ single => Cardinality(Left) > 1)
  <2>1. CASE decode_round
    <3>1. clean /\ single
      BY <2>1, <1>2 DEF decode_round
    <3>2. CASE framed
      <4>1. result' = [args |-> z, status |-> "Ok", payloads |-> Unframe(Left)]
        BY <2>1, <3>2, <1>2 DEF decode_round, Return
      <4> QED BY <4>1, <3>1, <3>2
    <3>3. CASE ~framed
      <4>1. result' = [args |-> z, status |-> "BadFraming", payloads |-> None]
        BY <2>1, <3>3, <1>2 DEF decode_round, Return
      <4> QED BY <4>1, <3>3
    <3> QED BY <3>2, <3>3
  <2>2. CASE fail_to_decode
    <3>1. result' = [args |-> z, status |-> "IbltError", payloads |-> None]
      BY <2>2 DEF fail_to_decode, Return
    <3>2. clean /\ single => Cardinality(Left) > 1
      BY <2>2, <1>2 DEF fail_to_decode
    <3> QED BY <3>1, <3>2
  <2> QED BY <2>1, <2>2
<1>4. PICK w : w = z
  OBVIOUS
<1>5. /\ result'.args = w /\ CanCombine(w)'
      /\ \/ /\ result'.status = "Ok" /\ clean' /\ single'
            /\ (\A x \in Left' : FramingIsValid(w.cfg, x[4][2]))
            /\ result'.payloads = Unframe(Left)'
         \/ /\ result'.status = "BadFraming"
            /\ ~(\A x \in Left' : FramingIsValid(w.cfg, x[4][2]))
         \/ /\ result'.status = "IbltError"
            /\ clean' /\ single' => Cardinality(Left') > 1
  <2>1. CanCombine(w)'
    BY <1>1, <1>2, <1>4, SameSlices
  <2>2. Left' = Left /\ (clean' <=> clean) /\ (single' <=> single)
    BY <1>1, SameSlices
  <2>3. Unframe(Left)' = Unframe(Left)
    BY <2>2 DEF Unframe
  <2> QED BY <1>3, <1>4, <2>1, <2>2, <2>3
<1>6. ResultOK'
  BY <1>5 DEF ResultOK
<1> QED BY <1>1, <1>6, SameSlices DEF IInv, CallOK

LEMMA NextInvariant == IInv /\ [Next]_vars => IInv'
<1> SUFFICES ASSUME IInv, [Next]_vars PROVE IInv'
  OBVIOUS
<1>1. CASE UNCHANGED vars
  <2>1. UNCHANGED <<clients, servers, call, result>>
    BY <1>1 DEF vars
  <2>2. CallOK'
    BY <2>1, SameSlices DEF IInv, CallOK
  <2>3. ResultOK'
    <3>1. Left' = Left /\ (\A x : Total(x)' = Total(x)) /\ \A z : CanCombine(z)' <=> CanCombine(z)
      BY <2>1, SameSlices
    <3>2. Unframe(Left)' = Unframe(Left)
      BY <3>1 DEF Unframe
    <3> QED BY <2>1, <3>1, <3>2 DEF IInv, ResultOK
  <2> QED BY <2>1, <2>2, <2>3, SameSlices DEF IInv
<1>2. CASE Next
  BY <1>2, SlicesGrow, CombineStarts, ContributionAdded, ShareTakenOff, CallEnds
     DEF Next, IInv
<1> QED BY <1>1, <1>2

\* The invariant holds of every state.
THEOREM Invariant == Spec => []IInv
<1>1. Init => IInv
  BY DEF Init, IInv, SlicesOK, CallOK, ResultOK
<1> QED BY <1>1, NextInvariant, PTL DEF Spec

-----------------------------------------------------------------------------
(***************************************************************************)
(* The properties.                                                         *)
(***************************************************************************)
\* Types; and no assertion of the primitives fails, whatever combine_round is
\* given: what it has compared before is what they ask for.
THEOREM TypeCorrect == Spec => []TypeOK
<1>1. IInv => TypeOK
  <2> SUFFICES ASSUME IInv PROVE TypeOK
    OBVIOUS
  <2>1. \A i \in DOMAIN clients :
          /\ clients[i].signer \in Clients /\ clients[i].round \in Rounds
          /\ clients[i].shared_secrets \subseteq Servers
    <3>1. \A i \in DOMAIN clients : clients[i] \in Contributions
      BY DEF IInv, SlicesOK
    <3> QED BY <3>1 DEF Contributions
  <2>2. \A j \in DOMAIN servers :
          /\ servers[j].server_id \in Servers /\ servers[j].round \in Rounds
          /\ servers[j].shared_secrets \subseteq Clients
    <3>1. \A j \in DOMAIN servers : servers[j] \in Shares
      BY DEF IInv, SlicesOK
    <3> QED BY <3>1 DEF Shares
  <2>3. ASSUME call # None
        PROVE  /\ call.summed \in 0 .. Len(clients) /\ call.subtracted \in 0 .. Len(servers)
               /\ call.dst \in AuctionVector
    <3>1. /\ call.summed \in 0 .. Len(clients) /\ call.subtracted \in 0 .. Len(servers)
          /\ call.dst = [x \in Term |-> Count(x, call.summed, call.subtracted)]
      BY <2>3 DEF IInv, CallOK
    <3>2. call.summed \in Nat /\ call.subtracted \in Nat
      BY <3>1
    <3>3. \A n, k \in Nat : \A x \in Term : Count(x, n, k) \in Int
      BY Finite DEF Count
    <3>4. \A x \in Term : Count(x, call.summed, call.subtracted) \in Int
      BY <3>2, <3>3
    <3> QED BY <3>1, <3>4 DEF AuctionVector
  <2>4. result # None => result.status \in {"Ok", "Refused", "IbltError", "BadFraming"}
    BY DEF IInv, ResultOK
  <2> QED BY <2>1, <2>2, <2>3, <2>4 DEF TypeOK
<1> QED BY <1>1, Invariant, PTL

\* The terms of a contribution, and of a share, that are pads.
LEMMA PadsOfTerms ==
  ASSUME NEW c, NEW s, NEW r
  PROVE  /\ \A m : Pad(c, s, r) \in Terms(m) <=>
                     /\ m.signer = c /\ s \in m.shared_secrets
                     /\ PadRound(m.round) = PadRound(r)
         /\ \A m : Pad(c, s, r) \in ShareTerms(m) <=>
                     /\ c \in m.shared_secrets /\ m.server_id = s
                     /\ PadRound(m.round) = PadRound(r)
<1>1. \A a, b, q : Pad(a, b, q) = Pad(c, s, r)
                     <=> a = c /\ b = s /\ PadRound(q) = PadRound(r)
  BY DEF Pad
<1>2. \A m : Content(m.signer, m.round, m.entry) # Pad(c, s, r)
  BY DEF Content, Pad
<1>3. \A A, B, q : Pad(c, s, r) \in PadSet(A, B, q)
                     <=> c \in A /\ s \in B /\ PadRound(q) = PadRound(r)
  <2> TAKE A, B, q
  <2>1. Pad(c, s, r) \in PadSet(A, B, q)
          <=> \E a \in A, b \in B : Pad(a, b, q) = Pad(c, s, r)
    BY DEF PadSet
  <2> QED BY <2>1, <1>1
<1>4. \A m : Pad(c, s, r) \in Terms(m)
               <=> Pad(c, s, r) \in PadSet({m.signer}, m.shared_secrets, m.round)
  BY <1>2 DEF Terms
<1>5. \A m : Pad(c, s, r) \in Terms(m) <=>
               /\ m.signer = c /\ s \in m.shared_secrets
               /\ PadRound(m.round) = PadRound(r)
  <2> TAKE m
  <2>1. Pad(c, s, r) \in Terms(m)
          <=> Pad(c, s, r) \in PadSet({m.signer}, m.shared_secrets, m.round)
    BY <1>4
  <2>2. Pad(c, s, r) \in PadSet({m.signer}, m.shared_secrets, m.round)
          <=> c \in {m.signer} /\ s \in m.shared_secrets /\ PadRound(m.round) = PadRound(r)
    BY <1>3
  <2>3. c \in {m.signer} <=> m.signer = c
    OBVIOUS
  <2> QED BY <2>1, <2>2, <2>3, Zenon
<1>6. \A m : Pad(c, s, r) \in ShareTerms(m) <=>
               /\ c \in m.shared_secrets /\ m.server_id = s
               /\ PadRound(m.round) = PadRound(r)
  BY <1>3 DEF ShareTerms
<1> QED BY <1>5, <1>6

\* A pad of the round counts the contributions and the shares it is laid over.
LEMMA TotalOfPad ==
  ASSUME SlicesOK, NEW z, RoundsMatch(z.round), NEW c, NEW s
  PROVE  Total(Pad(c, s, z.round)) = Cardinality(BlindedFor(c, s)) - Cardinality(CountedBy(c, s))
<1> DEFINE x == Pad(c, s, z.round)
<1>1. DOMAIN clients = 1 .. Len(clients) /\ DOMAIN servers = 1 .. Len(servers)
  BY DEF SlicesOK
<1>2. \A i \in DOMAIN clients : x \in Terms(clients[i])
         <=> clients[i].signer = c /\ s \in clients[i].shared_secrets
  BY PadsOfTerms DEF RoundsMatch
<1>3. \A j \in DOMAIN servers : x \in ShareTerms(servers[j])
         <=> servers[j].server_id = s /\ c \in servers[j].shared_secrets
  BY PadsOfTerms DEF RoundsMatch
<1> HIDE DEF x
<1>4. Holding(x, Len(clients)) = BlindedFor(c, s)
  BY <1>1, <1>2 DEF Holding, BlindedFor
<1>5. Taking(x, Len(servers)) = CountedBy(c, s)
  BY <1>1, <1>3 DEF Taking, CountedBy
<1> QED BY <1>4, <1>5 DEF Total, Count, x

\* A round opens only if every client a server counts is there once, and every
\* server a client blinded for has given its share: pads tell, nothing else does.
THEOREM OpenMeansWhole == Spec => []OpensOnlyWhole
<1>1. IInv => OpensOnlyWhole
  <2> SUFFICES ASSUME IInv, Returned("Ok"), NEW c \in Clients, NEW s \in Servers
               PROVE  /\ Cardinality(BlindedFor(c, s)) = Cardinality(CountedBy(c, s))
                      /\ Cardinality(BlindedFor(c, s)) <= 1
    BY DEF OpensOnlyWhole
  <2> DEFINE z == result.args
             x == Pad(c, s, z.round)
  <2>1. CanCombine(z) /\ \A y \in Pads : Total(y) = 0
    BY DEF IInv, ResultOK, Returned
  <2>2. /\ IsFiniteSet(BlindedFor(c, s)) /\ Cardinality(BlindedFor(c, s)) \in Nat
        /\ IsFiniteSet(CountedBy(c, s)) /\ Cardinality(CountedBy(c, s)) \in Nat
    <3>1. IsFiniteSet(DOMAIN clients) /\ IsFiniteSet(DOMAIN servers)
      BY FS_Interval DEF IInv, SlicesOK
    <3>2. BlindedFor(c, s) \in SUBSET DOMAIN clients /\ CountedBy(c, s) \in SUBSET DOMAIN servers
      BY DEF BlindedFor, CountedBy
    <3>3. IsFiniteSet(BlindedFor(c, s)) /\ IsFiniteSet(CountedBy(c, s))
      BY <3>1, <3>2, FS_Subset
    <3> QED BY <3>3, FS_CardinalityType
  <2>3. Cardinality(BlindedFor(c, s)) = Cardinality(CountedBy(c, s))
    <3>1. CASE z.round \in Rounds
      <4>1. Total(x) = 0
        BY <3>1, <2>1 DEF Pads
      <4>2. Total(x) = Cardinality(BlindedFor(c, s)) - Cardinality(CountedBy(c, s))
        BY <2>1, TotalOfPad DEF CanCombine, IInv
      <4> QED BY <4>1, <4>2, <2>2
    <3>2. CASE z.round \notin Rounds
      <4>1. \A i \in DOMAIN clients : clients[i].round \in Rounds /\ clients[i].round = z.round
        <5>1. \A i \in DOMAIN clients : clients[i] \in Contributions
          BY DEF IInv, SlicesOK
        <5> QED BY <5>1, <2>1 DEF Contributions, CanCombine, RoundsMatch
      <4>2. \A j \in DOMAIN servers : servers[j].round \in Rounds /\ servers[j].round = z.round
        <5>1. \A j \in DOMAIN servers : servers[j] \in Shares
          BY DEF IInv, SlicesOK
        <5> QED BY <5>1, <2>1 DEF Shares, CanCombine, RoundsMatch
      <4> QED BY <4>1, <4>2, <3>2 DEF BlindedFor, CountedBy
    <3> QED BY <3>1, <3>2
  <2>4. Cardinality(CountedBy(c, s)) <= 1
    <3>1. \A i, j \in CountedBy(c, s) : i = j
      BY <2>1 DEF CountedBy, CanCombine, ServersAreDistinct
    <3>2. CASE CountedBy(c, s) = {}
      BY <3>2, FS_EmptySet
    <3>3. CASE CountedBy(c, s) # {}
      <4>1. PICK j : j \in CountedBy(c, s)
        BY <3>3
      <4>2. CountedBy(c, s) = {j}
        BY <4>1, <3>1
      <4> QED BY <4>2, FS_Singleton
    <3> QED BY <3>2, <3>3
  <2> QED BY <2>2, <2>3, <2>4
<1> QED BY <1>1, Invariant, PTL

\* The contributions with a payload, and what each puts into the sum.
Sent == {i \in DOMAIN clients : clients[i].payload # None}
ContentOf(i) == Content(clients[i].signer, clients[i].round, clients[i].entry)

\* A contribution with a payload is in the sum with its entry, whose frame
\* holds the payload.
LEMMA SentContents ==
  ASSUME SlicesOK, NEW i \in Sent
  PROVE  /\ i \in DOMAIN clients /\ clients[i].entry # None
         /\ ContentOf(i) \in Contents
         /\ ContentOf(i)[4][2] = Framed(clients[i].cfg, clients[i].payload)
         /\ Framed(clients[i].cfg, clients[i].payload)[1] = Len(clients[i].payload)
         /\ Unframed(ContentOf(i)[4][2]) = clients[i].payload
<1> DEFINE m == clients[i]
<1>1. i \in DOMAIN clients /\ m.payload # None /\ m \in Contributions /\ Encoded(m)
  BY DEF Sent, SlicesOK
<1> HIDE DEF m
<1>2. /\ m.signer \in Clients /\ m.round \in Rounds /\ m.cfg \in Configs
      /\ m.payload \in Seq(Nat) /\ m.entry \in Drafts /\ m.entry # None
      /\ Fits(m.cfg, m.payload) /\ m.entry[2] = Framed(m.cfg, m.payload)
  BY <1>1 DEF Contributions, Encoded
<1>3. Content(m.signer, m.round, m.entry) \in Contents
  BY <1>2 DEF Contents
<1>4. Content(m.signer, m.round, m.entry)[4] = m.entry
  BY DEF Content
<1>5. /\ Framed(m.cfg, m.payload)[1] = Len(m.payload)
      /\ Unframed(Framed(m.cfg, m.payload)) = m.payload
  BY <1>2, UnframedIsPayload
<1> QED BY <1>1, <1>2, <1>3, <1>4, <1>5 DEF ContentOf, m

\* A content counts the contributions that put it in.
LEMMA TotalOfContent ==
  ASSUME SlicesOK, NEW x \in Contents
  PROVE  /\ Total(x) = Cardinality({i \in Sent : ContentOf(i) = x})
         /\ IsFiniteSet({i \in Sent : ContentOf(i) = x})
<1>1. DOMAIN clients = 1 .. Len(clients) /\ Len(clients) \in Nat /\ Len(servers) \in Nat
  BY DEF SlicesOK
<1>2. \A c, s, r : Pad(c, s, r) # x
  BY DEF Contents, Content, Pad
<1>3. \A A, B, r : x \notin PadSet(A, B, r)
  BY <1>2 DEF PadSet
<1>4. Taking(x, Len(servers)) = {}
  BY <1>3 DEF Taking, ShareTerms
<1>5. \A i \in DOMAIN clients :
        clients[i].entry = None <=> clients[i].payload = None
  BY DEF SlicesOK, Encoded
<1>6. \A i \in DOMAIN clients : x \in Terms(clients[i]) <=> i \in Sent /\ ContentOf(i) = x
  BY <1>3, <1>5 DEF Terms, Sent, ContentOf
<1>7. Holding(x, Len(clients)) = {i \in Sent : ContentOf(i) = x}
  BY <1>1, <1>6 DEF Holding, Sent
<1>8. Cardinality(Taking(x, Len(servers))) = 0
  BY <1>4, FS_EmptySet
<1>9. IsFiniteSet(Holding(x, Len(clients))) /\ Cardinality(Holding(x, Len(clients))) \in Nat
  BY <1>1, Finite
<1>10. Total(x) = Cardinality(Holding(x, Len(clients)))
  BY <1>8, <1>9 DEF Total, Count
<1> QED BY <1>7, <1>9, <1>10

\* What is left are the contents that were put in.
LEMMA LeftIsSent ==
  ASSUME SlicesOK
  PROVE  /\ \A i \in Sent : ContentOf(i) \in Left
         /\ \A x \in Left : \E i \in Sent : ContentOf(i) = x
         /\ (\A x \in Left : Total(x) = 1) =>
              \A i, j \in Sent : ContentOf(i) = ContentOf(j) => i = j
<1> DEFINE At(x) == {i \in Sent : ContentOf(i) = x}
<1>1. \A x \in Contents : Total(x) = Cardinality(At(x)) /\ IsFiniteSet(At(x))
  BY TotalOfContent
<1>2. \A i \in Sent : ContentOf(i) \in Contents /\ i \in At(ContentOf(i))
  BY SentContents
<1>3. \A i \in Sent : ContentOf(i) \in Left
  <2> TAKE i \in Sent
  <2>1. ContentOf(i) \in Contents /\ At(ContentOf(i)) # {} /\ IsFiniteSet(At(ContentOf(i)))
    BY <1>1, <1>2
  <2>2. Cardinality(At(ContentOf(i))) # 0
    BY <2>1, FS_EmptySet
  <2> QED BY <2>1, <2>2, <1>1 DEF Left
<1>4. \A x \in Left : \E i \in Sent : ContentOf(i) = x
  <2> TAKE x \in Left
  <2>1. x \in Contents /\ Cardinality(At(x)) # 0
    BY <1>1 DEF Left
  <2>2. At(x) # {}
    BY <2>1, FS_EmptySet
  <2> QED BY <2>2
<1>5. ASSUME \A x \in Left : Total(x) = 1, NEW i \in Sent, NEW j \in Sent,
             ContentOf(i) = ContentOf(j)
      PROVE  i = j
  <2>1. Total(ContentOf(i)) = 1 /\ ContentOf(i) \in Contents
    BY <1>2, <1>3, <1>5
  <2>2. Cardinality(At(ContentOf(i))) = 1 /\ IsFiniteSet(At(ContentOf(i)))
    BY <2>1, <1>1
  <2>3. \E k : At(ContentOf(i)) = {k}
    BY <2>2, FS_Singleton
  <2>4. i \in At(ContentOf(i)) /\ j \in At(ContentOf(i))
    BY <1>5
  <2> QED BY <2>3, <2>4
<1> QED BY <1>3, <1>4, <1>5

\* What a round that opens yields is what its clients handed in for it, byte by
\* byte and as often as they did: each entry left is of one contribution.
THEOREM PayloadsCome == Spec => []PayloadsArrive
<1>1. IInv => PayloadsArrive
  <2> SUFFICES ASSUME IInv, Returned("Ok") PROVE PayloadsArrive
    BY DEF PayloadsArrive
  <2>1. /\ SlicesOK /\ CanCombine(result.args)
        /\ \A x \in Left : Total(x) = 1
        /\ result.payloads = Unframe(Left)
    BY DEF IInv, ResultOK, Returned
  <2>2. \A i \in DOMAIN clients : clients[i].round = result.args.round
    BY <2>1 DEF CanCombine, RoundsMatch
  <2> DEFINE P(x) == Unframed(x[4][2])
             A(p) == {x \in Left : P(x) = p}
             B(p) == {i \in Sent : clients[i].payload = p}
  <2>3. result.payloads = [p \in {P(x) : x \in Left} |-> Cardinality(A(p))]
    BY <2>1 DEF Unframe
  <2>4. \A i \in Sent : P(ContentOf(i)) = clients[i].payload /\ ContentOf(i) \in Left
    BY <2>1, SentContents, LeftIsSent
  <2>5. \A x \in Left : \E i \in Sent : ContentOf(i) = x
    BY <2>1, LeftIsSent
  <2>6. \A i, j \in Sent : ContentOf(i) = ContentOf(j) => i = j
    BY <2>1, LeftIsSent
  <2> HIDE DEF P
  <2>7. {P(x) : x \in Left} = {clients[i].payload : i \in Sent}
    BY <2>4, <2>5
  <2>8. \A p : Cardinality(A(p)) = Cardinality(B(p))
    <3> TAKE p
    <3> DEFINE f == [i \in B(p) |-> ContentOf(i)]
    <3>1. f \in [B(p) -> A(p)]
      BY <2>4
    <3>2. \A i, j \in B(p) : f[i] = f[j] => i = j
      BY <2>6
    <3>3. \A x \in A(p) : \E i \in B(p) : f[i] = x
      BY <2>4, <2>5
    <3>4. f \in Bijection(B(p), A(p))
      BY <3>1, <3>2, <3>3, Fun_IsBij
    <3>5. ExistsBijection(B(p), A(p))
      BY <3>4, Fun_ExistsBij
    <3>6. IsFiniteSet(B(p))
      <4>1. IsFiniteSet(DOMAIN clients)
        BY <2>1, FS_Interval DEF SlicesOK
      <4>2. B(p) \in SUBSET DOMAIN clients
        BY DEF Sent
      <4> QED BY <4>1, <4>2, FS_Subset
    <3> QED BY <3>5, <3>6, FS_Bijection
  <2>9. DOMAIN result.payloads = {clients[i].payload : i \in Sent}
    BY <2>3, <2>7
  <2>10. \A p \in DOMAIN result.payloads : result.payloads[p] = Cardinality(B(p))
    <3>1. \A p \in DOMAIN result.payloads : result.payloads[p] = Cardinality(A(p))
      BY <2>3
    <3> QED BY <3>1, <2>8
  <2> QED BY <2>2, <2>9, <2>10 DEF PayloadsArrive, Sent
<1> QED BY <1>1, Invariant, PTL

\* One of a kind.
LEMMA OnlyOne ==
  ASSUME NEW S, IsFiniteSet(S)
  PROVE  /\ Cardinality(S) = 1 => S # {} /\ \A i, j \in S : i = j
         /\ S # {} /\ (\A i, j \in S : i = j) => Cardinality(S) = 1
<1>1. ASSUME Cardinality(S) = 1
      PROVE  S # {} /\ \A i, j \in S : i = j
  BY <1>1, FS_Singleton
<1>2. ASSUME S # {}, \A i, j \in S : i = j
      PROVE  Cardinality(S) = 1
  <2>1. PICK i : i \in S
    BY <1>2
  <2>2. S = {i}
    BY <2>1, <1>2
  <2> QED BY <2>2, FS_Singleton
<1> QED BY <1>1, <1>2

\* combine_round takes a complete round.
LEMMA CompleteIsTaken ==
  ASSUME SlicesOK, NEW z, Complete(z)
  PROVE  CanCombine(z)
<1>1. DOMAIN servers = 1 .. Len(servers) /\ Len(servers) \in Nat /\ IsFiniteSet(DOMAIN servers)
  BY FS_Interval DEF SlicesOK
<1>2. \A j \in DOMAIN servers : servers[j].server_id \in Servers
  <2>1. \A j \in DOMAIN servers : servers[j] \in Shares
    BY DEF SlicesOK
  <2> QED BY <2>1 DEF Shares
<1> DEFINE Of(s) == {j \in DOMAIN servers : servers[j].server_id = s}
<1>3. \A s \in Servers : Of(s) # {} /\ \A i, j \in Of(s) : i = j
  <2> TAKE s \in Servers
  <2>1. Cardinality(Of(s)) = 1
    BY DEF Complete
  <2>2. IsFiniteSet(Of(s))
    <3>1. Of(s) \in SUBSET DOMAIN servers
      OBVIOUS
    <3> QED BY <3>1, <1>1, FS_Subset
  <2> HIDE DEF Of
  <2> QED BY <2>1, <2>2, OnlyOne
<1>4. ServersAreDistinct
  BY <1>2, <1>3 DEF ServersAreDistinct
<1>5. Len(servers) = Cardinality(Servers)
  <2> DEFINE f == [j \in 1 .. Len(servers) |-> servers[j].server_id]
  <2>1. f \in [1 .. Len(servers) -> Servers]
    BY <1>1, <1>2
  <2>2. \A i, j \in 1 .. Len(servers) : f[i] = f[j] => i = j
    BY <1>1, <1>4 DEF ServersAreDistinct
  <2>3. \A s \in Servers : \E j \in 1 .. Len(servers) : f[j] = s
    BY <1>1, <1>3
  <2> HIDE DEF f
  <2>4. f \in Bijection(1 .. Len(servers), Servers)
    BY <2>1, <2>2, <2>3, Fun_IsBij
  <2>5. ExistsBijection(1 .. Len(servers), Servers)
    BY <2>4, Fun_ExistsBij
  <2> QED BY <2>5, <1>1, FS_CountingElements
<1>6. RoundsMatch(z.round) /\ LengthsMatch(encoded_len(z.cfg))
  BY DEF Complete, RoundsMatch, LengthsMatch
<1> QED BY <1>4, <1>5, <1>6 DEF CanCombine, Complete

\* No pad is left of a complete round.
LEMMA CompleteIsClean ==
  ASSUME SlicesOK, NEW z, Complete(z), NEW x \in Pads
  PROVE  Total(x) = 0
<1>1. PICK c \in Clients, s \in Servers, r \in Rounds : x = Pad(c, s, r)
  BY DEF Pads
<1>2. RoundsMatch(z.round)
  BY DEF Complete, RoundsMatch
<1>3. CASE PadRound(r) = PadRound(z.round)
  <2>1. x = Pad(c, s, z.round)
    BY <1>1, <1>3 DEF Pad
  <2>2. BlindedFor(c, s) = {i \in DOMAIN clients : clients[i].signer = c}
    BY DEF BlindedFor, Complete
  <2>3. CountedBy(c, s) = {j \in DOMAIN servers : servers[j].server_id = s}
    BY DEF CountedBy, Complete
  <2>4. Cardinality(BlindedFor(c, s)) = 1 /\ Cardinality(CountedBy(c, s)) = 1
    BY <2>2, <2>3 DEF Complete
  <2> QED BY <1>2, <2>1, <2>4, TotalOfPad
<1>4. CASE PadRound(r) # PadRound(z.round)
  <2>1. Holding(x, Len(clients)) = {}
    BY <1>1, <1>2, <1>4, PadsOfTerms DEF Holding, RoundsMatch
  <2>2. Taking(x, Len(servers)) = {}
    BY <1>1, <1>2, <1>4, PadsOfTerms DEF Taking, RoundsMatch
  <2> QED BY <2>1, <2>2, FS_EmptySet DEF Total, Count
<1> QED BY <1>3, <1>4

\* Every entry left of a complete round is there once, and its frame is valid.
LEMMA CompleteIsSingle ==
  ASSUME SlicesOK, NEW z, Complete(z), NEW x \in Left
  PROVE  Total(x) = 1 /\ FramingIsValid(z.cfg, x[4][2])
<1>1. PICK i \in Sent : ContentOf(i) = x
  BY LeftIsSent
<1>2. \A a, b \in DOMAIN clients : clients[a].signer = clients[b].signer => a = b
  <2> SUFFICES ASSUME NEW a \in DOMAIN clients, NEW b \in DOMAIN clients,
                      clients[a].signer = clients[b].signer
               PROVE  a = b
    OBVIOUS
  <2> DEFINE S == {k \in DOMAIN clients : clients[k].signer = clients[a].signer}
  <2>0. clients[a] \in Contributions
    BY DEF SlicesOK
  <2>1. clients[a].signer \in Clients
    BY <2>0 DEF Contributions
  <2>2. Cardinality(S) = 1
    BY <2>1 DEF Complete
  <2>3. IsFiniteSet(S)
    <3>1. S \in SUBSET DOMAIN clients /\ IsFiniteSet(DOMAIN clients)
      BY FS_Interval DEF SlicesOK
    <3> QED BY <3>1, FS_Subset
  <2>4. a \in S /\ b \in S
    OBVIOUS
  <2> HIDE DEF S
  <2> QED BY <2>2, <2>3, <2>4, OnlyOne
<1>3. x \in Contents
  BY DEF Left
<1> DEFINE T == {j \in Sent : ContentOf(j) = x}
<1>4. Total(x) = Cardinality(T) /\ IsFiniteSet(T)
  BY <1>3, TotalOfContent
<1>5. i \in T
  BY <1>1
<1>6. \A j, k \in T : j = k
  <2>1. \A j, k : ContentOf(j) = ContentOf(k) => clients[j].signer = clients[k].signer
    BY DEF ContentOf, Content
  <2> QED BY <2>1, <1>2 DEF Sent
<1> HIDE DEF T
<1>7. Total(x) = 1
  BY <1>4, <1>5, <1>6, OnlyOne
<1>8. x[4][2][1] = Len(clients[i].payload)
  BY <1>1, SentContents
<1>9. Fits(clients[i].cfg, clients[i].payload) /\ clients[i].cfg = z.cfg
  BY <1>1 DEF Sent, SlicesOK, Encoded, Complete
<1> QED BY <1>7, <1>8, <1>9 DEF Fits, FramingIsValid

\* A round in which everybody did what he should opens, unless the keys of two
\* entries collide: nothing that was taken is refused, or found too long, later.
THEOREM CompleteOpens == Spec => []CompleteRoundOpens
<1>1. IInv => CompleteRoundOpens
  <2> SUFFICES ASSUME IInv, result # None, Complete(result.args)
               PROVE  \/ result.status = "Ok"
                      \/ result.status = "IbltError" /\ Cardinality(Sent) > 1
    BY DEF CompleteRoundOpens, Sent
  <2> DEFINE z == result.args
  <2>1. /\ CanCombine(z)
        /\ \A x \in Pads : Total(x) = 0
        /\ \A x \in Left : Total(x) = 1
        /\ \A x \in Left : FramingIsValid(z.cfg, x[4][2])
    BY CompleteIsTaken, CompleteIsClean, CompleteIsSingle DEF IInv
  <2>2. \/ result.status = "Ok"
        \/ result.status = "IbltError" /\ Cardinality(Left) > 1
    BY <2>1 DEF IInv, ResultOK
  <2>3. Cardinality(Sent) \in Nat /\ Cardinality(Left) \in Nat
        /\ Cardinality(Left) <= Cardinality(Sent)
    <3> DEFINE f == [i \in Sent |-> ContentOf(i)]
    <3>1. IsFiniteSet(Sent)
      <4>1. Sent \in SUBSET DOMAIN clients /\ IsFiniteSet(DOMAIN clients)
        BY FS_Interval DEF IInv, SlicesOK, Sent
      <4> QED BY <4>1, FS_Subset
    <3>2. f \in [Sent -> Left] /\ \A x \in Left : \E i \in Sent : f[i] = x
      BY LeftIsSent DEF IInv
    <3>3. f \in Surjection(Sent, Left)
      BY <3>2, Fun_IsSurj
    <3>4. IsFiniteSet(Left) /\ Cardinality(Left) <= Cardinality(Sent)
      BY <3>1, <3>3, FS_Surjection
    <3> QED BY <3>1, <3>4, FS_CardinalityType
  <2> QED BY <2>2, <2>3
<1> QED BY <1>1, Invariant, PTL
=============================================================================
