---------------------- MODULE RequestHandling_proofs ----------------------
(***************************************************************************)
(* The properties of the request path, of the TPM provider and of the core *)
(* provider, for any number of threads, any set of configurations and any  *)
(* traffic.                                                                *)
(***************************************************************************)
EXTENDS RequestHandling, WellFoundedInduction, TLAPS

(* What is in a sequence besides its head is in its tail. *)
LEMMA HeadTail ==
  ASSUME NEW S, NEW s \in Seq(S), s # <<>>
  PROVE  /\ Head(s) \in S /\ Head(s) = s[1] /\ Tail(s) \in Seq(S)
         /\ \A i \in DOMAIN s : i = 1 \/ (i - 1 \in DOMAIN Tail(s) /\ Tail(s)[i - 1] = s[i])
  OBVIOUS

-----------------------------------------------------------------------------
(* Induction, in terms of sets *)

(* A set of natural numbers that is not empty has a least element. *)
LEMMA Least ==
  ASSUME NEW T \in SUBSET Nat, T # {}
  PROVE  \E n \in T : \A m \in T : ~(m < n)
<1> USE Zenon
<1> DEFINE R == OpToRel(<, Nat)
<1>1. IsWellFoundedOn(R, Nat)
  BY NatLessThanWellFounded
<1>2. \A m, n \in Nat : m < n => <<m, n>> \in R
  BY DEF OpToRel
<1> HIDE DEF R
<1>3. PICK n \in T : \A m \in T : ~(<<m, n>> \in R)
  BY <1>1, WFMin
<1> QED BY <1>2, <1>3

(* A set that has the empty sequence, and every sequence by one longer     *)
(* than one that it has, has all sequences.                                *)
LEMMA SeqInduction ==
  ASSUME NEW S, NEW G, <<>> \in G,
         \A s \in Seq(S), e \in S : s \in G => Append(s, e) \in G
  PROVE  Seq(S) \subseteq G
<1> USE Zenon
<1> SUFFICES ASSUME NEW u \in Seq(S), u \notin G PROVE FALSE
  OBVIOUS
<1> DEFINE T == {n \in Nat : \E s \in Seq(S) : Len(s) = n /\ s \notin G}
<1>1. T # {}
  BY SMT DEF T
<1>2. PICK n \in T : \A m \in T : ~(m < n)
  BY <1>1, Least
<1>3. PICK s \in Seq(S) : Len(s) = n /\ s \notin G
  BY <1>2
<1>4. s # <<>> /\ n # 0
  BY SMT, <1>3
<1> DEFINE t == [i \in 1..(n - 1) |-> s[i]]
<1>5. t \in Seq(S) /\ Len(t) = n - 1 /\ s[n] \in S /\ s = Append(t, s[n])
  BY SMT, <1>3, <1>4
<1>6. n - 1 \in Nat /\ n - 1 < n
  BY SMT, <1>4
<1>7. t \notin G
  BY <1>3, <1>5
<1> QED BY <1>2, <1>5, <1>6, <1>7

-----------------------------------------------------------------------------
(* Filtered *)

(* f is the function that Filtered(s, S) is defined with. *)
FilterOf(f, s, S) ==
  f = [n \in 0..Len(s) |->
         IF n = 0 THEN <<>>
         ELSE IF s[n] \in S THEN Append(f[n - 1], s[n]) ELSE f[n - 1]]

(* There is such a function for every sequence. *)
LEMMA FilterExists ==
  ASSUME NEW A, NEW S
  PROVE  \A s \in Seq(A) : \E f : FilterOf(f, s, S)
<1> USE Zenon
<1> DEFINE G == {s \in Seq(A) : \E f : FilterOf(f, s, S)}
<1>1. <<>> \in G
  <2> DEFINE f == [n \in 0..0 |-> <<>>]
  <2>1. FilterOf(f, <<>>, S)
    BY SMT DEF FilterOf
  <2> QED BY SMT, <2>1
<1>2. ASSUME NEW s \in Seq(A), NEW e \in A, s \in G PROVE Append(s, e) \in G
  <2>1. PICK f : FilterOf(f, s, S)
    BY <1>2
  <2> DEFINE t == Append(s, e)
             last == IF e \in S THEN Append(f[Len(s)], e) ELSE f[Len(s)]
             g == [n \in 0..Len(t) |-> IF n = Len(t) THEN last ELSE f[n]]
  <2>2. t \in Seq(A) /\ Len(t) = Len(s) + 1 /\ t[Len(t)] = e /\ \A n \in 1..Len(s) : t[n] = s[n]
    BY SMT
  <2>3. \A n \in 0..Len(s) : f[n] = IF n = 0 THEN <<>>
                                  ELSE IF s[n] \in S THEN Append(f[n - 1], s[n]) ELSE f[n - 1]
    BY <2>1 DEF FilterOf
  <2> HIDE DEF t
  <2>4. \A n \in 0..Len(t) : g[n] = IF n = 0 THEN <<>>
                                  ELSE IF t[n] \in S THEN Append(g[n - 1], t[n]) ELSE g[n - 1]
    BY SMTT(40), <2>2, <2>3
  <2>5. FilterOf(g, t, S)
    BY <2>4 DEF FilterOf
  <2> QED BY <2>2, <2>5 DEF t
<1> HIDE DEF G
<1>3. Seq(A) \subseteq G
  BY <1>1, <1>2, SeqInduction
<1> QED BY <1>3 DEF G

(* Filtered of the empty sequence, and of one by an element longer. *)
LEMMA FilteredStep ==
  ASSUME NEW A, NEW S
  PROVE  /\ Filtered(<<>>, S) = <<>>
         /\ \A s \in Seq(A), e \in A :
              /\ e \in S => Filtered(Append(s, e), S) = Append(Filtered(s, S), e)
              /\ e \notin S => Filtered(Append(s, e), S) = Filtered(s, S)
<1> USE Zenon
<1> DEFINE F(s) == CHOOSE f : FilterOf(f, s, S)
<1>1. \A s \in Seq(A) : Filtered(s, S) = F(s)[Len(s)]
  BY DEF Filtered, FilterOf
<1>2. \A s \in Seq(A) : FilterOf(F(s), s, S)
  BY FilterExists
<1> HIDE DEF F
<1>3. Filtered(<<>>, S) = <<>>
  <2>1. <<>> \in Seq(A) /\ Len(<<>>) = 0 /\ 0 \in 0..0
    BY SMT
  <2>2. F(<<>>)[0] = <<>>
    <3>1. FilterOf(F(<<>>), <<>>, S)
      BY <1>2, <2>1
    <3> QED BY <2>1, <3>1 DEF FilterOf
  <2>3. Filtered(<<>>, S) = F(<<>>)[Len(<<>>)]
    BY <1>1, <2>1
  <2> QED BY <2>1, <2>2, <2>3
<1>4. ASSUME NEW s \in Seq(A), NEW e \in A
      PROVE  /\ e \in S => Filtered(Append(s, e), S) = Append(Filtered(s, S), e)
             /\ e \notin S => Filtered(Append(s, e), S) = Filtered(s, S)
  <2> DEFINE t == Append(s, e)
             f == F(s)
             g == F(t)
             T == {n \in 0..Len(s) : f[n] # g[n]}
  <2>1. t \in Seq(A) /\ Len(t) = Len(s) + 1 /\ t[Len(t)] = e /\ \A n \in 1..Len(s) : t[n] = s[n]
    BY SMT
  <2> HIDE DEF t
  <2>2. \A n \in 0..Len(s) : f[n] = IF n = 0 THEN <<>>
                                  ELSE IF s[n] \in S THEN Append(f[n - 1], s[n]) ELSE f[n - 1]
    BY <1>2 DEF FilterOf
  <2>3. \A n \in 0..Len(t) : g[n] = IF n = 0 THEN <<>>
                                  ELSE IF t[n] \in S THEN Append(g[n - 1], t[n]) ELSE g[n - 1]
    BY <1>2, <2>1 DEF FilterOf
  <2> HIDE DEF f, g
  <2>4. T = {}
    <3> SUFFICES ASSUME T # {} PROVE FALSE
      OBVIOUS
    <3>0. T \in SUBSET Nat
      BY SMT
    <3>1. PICK n \in T : \A m \in T : ~(m < n)
      <4> HIDE DEF T
      <4> QED BY <3>0, Least
    <3>2. n # 0 /\ n - 1 \in 0..Len(s) /\ n \in 0..Len(t) /\ s[n] = t[n]
      BY SMT, <2>1, <2>2, <2>3, <3>1
    <3>3. f[n - 1] = g[n - 1]
      BY SMT, <3>1, <3>2
    <3> QED BY <2>2, <2>3, <3>1, <3>2, <3>3
  <2>5. g[Len(t)] = IF e \in S THEN Append(f[Len(s)], e) ELSE f[Len(s)]
    BY SMT, <2>1, <2>3, <2>4
  <2> QED BY <1>1, <2>1, <2>5 DEF f, g, t
<1> QED BY <1>3, <1>4

(* An element of S is kept. *)
LEMMA FilteredPush ==
  ASSUME NEW A, NEW S, NEW s \in Seq(A), NEW e \in A, e \in S
  PROVE  Filtered(Append(s, e), S) = Append(Filtered(s, S), e)
  BY SMT, FilteredStep

(* Another one is left out. *)
LEMMA FilteredSkip ==
  ASSUME NEW A, NEW S, NEW s \in Seq(A), NEW e \in A, e \notin S
  PROVE  Filtered(Append(s, e), S) = Filtered(s, S)
  BY Zenon, FilteredStep

(* g gives the places in s of the elements of Filtered(s, S). *)
Places(g, s, S) ==
  /\ g \in [1..Len(Filtered(s, S)) -> 1..Len(s)]
  /\ \A i \in DOMAIN g : Filtered(s, S)[i] = s[g[i]]
  /\ \A i, j \in DOMAIN g : i < j => g[i] < g[j]
  /\ \A k \in 1..Len(s) : s[k] \in S => \E i \in DOMAIN g : g[i] = k

(* Filtered(s, S) has the elements of s that are in S, in their order. *)
LEMMA FilteredPlaces ==
  ASSUME NEW A, NEW S
  PROVE  \A s \in Seq(A) : Filtered(s, S) \in Seq(A \cap S) /\ \E g : Places(g, s, S)
<1> USE Zenon
<1> DEFINE G == {s \in Seq(A) : Filtered(s, S) \in Seq(A \cap S) /\ \E g : Places(g, s, S)}
<1>1. <<>> \in G
  <2>1. Filtered(<<>>, S) = <<>>
    BY FilteredStep
  <2>2. Places(<<>>, <<>>, S)
    BY SMT, <2>1 DEF Places
  <2>3. <<>> \in Seq(A) /\ <<>> \in Seq(A \cap S)
    BY SMT
  <2> QED BY <2>1, <2>2, <2>3
<1>2. ASSUME NEW s \in Seq(A), NEW e \in A, s \in G PROVE Append(s, e) \in G
  <2>1. PICK g : Places(g, s, S)
    BY <1>2
  <2> DEFINE t == Append(s, e)
             u == Filtered(s, S)
             v == Filtered(t, S)
  <2>2. t \in Seq(A) /\ Len(t) = Len(s) + 1 /\ t[Len(t)] = e /\ \A n \in 1..Len(s) : t[n] = s[n]
    BY SMT
  <2>3. (e \in S => v = Append(u, e)) /\ (e \notin S => v = u)
    BY SMT, FilteredPush, FilteredSkip
  <2>4. u \in Seq(A \cap S)
    BY <1>2
  <2>5. /\ g \in [1..Len(u) -> 1..Len(s)]
        /\ \A i \in 1..Len(u) : u[i] = s[g[i]]
        /\ \A i, j \in 1..Len(u) : i < j => g[i] < g[j]
        /\ \A k \in 1..Len(s) : s[k] \in S => \E i \in 1..Len(u) : g[i] = k
    BY <2>1 DEF Places
  <2>6. SUFFICES v \in Seq(A \cap S) /\ \E h : Places(h, t, S)
    BY <2>2
  <2> HIDE DEF t, u, v
  <2>7. CASE e \notin S
    <3>1. v = u
      BY <2>3, <2>7
    <3>2. Places(g, t, S)
      <4> USE <2>2, <2>5, <3>1
      <4>1. g \in [1..Len(v) -> 1..Len(t)]
        BY SMT, <2>4
      <4>2. \A i \in 1..Len(v) : v[i] = t[g[i]]
        OBVIOUS
      <4>3. \A k \in 1..Len(t) : t[k] \in S => \E i \in 1..Len(v) : g[i] = k
        BY SMT, <2>7
      <4> QED BY <4>1, <4>2, <4>3 DEF Places, v
    <3> QED BY <2>4, <3>1, <3>2
  <2>8. CASE e \in S
    <3> DEFINE h == [i \in 1..(Len(u) + 1) |-> IF i = Len(u) + 1 THEN Len(t) ELSE g[i]]
    <3>1. v = Append(u, e)
      BY <2>3, <2>8
    <3>2. /\ v \in Seq(A \cap S) /\ Len(u) \in Nat /\ Len(v) = Len(u) + 1
          /\ v[Len(u) + 1] = e /\ \A i \in 1..Len(u) : v[i] = u[i]
      BY SMT, <2>4, <2>8, <3>1
    <3>3. Places(h, t, S)
      <4> USE <2>2, <2>5, <3>2
      <4>1. h \in [1..Len(v) -> 1..Len(t)]
        BY SMT
      <4>2. \A i \in 1..Len(v) : v[i] = t[h[i]]
        <5>1. \A i \in 1..Len(u) : v[i] = t[h[i]]
          BY SMT
        <5>2. v[Len(u) + 1] = t[h[Len(u) + 1]]
          BY SMT
        <5>3. \A i \in 1..Len(v) : i \in 1..Len(u) \/ i = Len(u) + 1
          BY SMT, <3>2
        <5> HIDE DEF h
        <5> QED BY ONLY <5>1, <5>2, <5>3
      <4>3. \A i, j \in 1..Len(v) : i < j => h[i] < h[j]
        <5>1. \A i \in 1..Len(u) : h[i] = g[i] /\ g[i] \in 1..Len(s)
          BY SMT
        <5>2. h[Len(u) + 1] = Len(s) + 1
          BY SMT
        <5>3. Len(u) \in Nat /\ Len(s) \in Nat /\ Len(v) = Len(u) + 1
          BY SMT
        <5>4. \A i, j \in 1..Len(u) : i < j => g[i] < g[j]
          OBVIOUS
        <5>5. ASSUME NEW i \in 1..Len(v), NEW j \in 1..Len(v), i < j PROVE h[i] < h[j]
          <6>1. i \in 1..Len(u)
            BY ONLY <5>3, <5>5
          <6>2. CASE j = Len(u) + 1
            <7>1. h[i] \in 1..Len(s)
              BY ONLY Zenon, <5>1, <6>1
            <7>2. h[j] = Len(s) + 1
              BY ONLY <5>2, <6>2
            <7> QED BY ONLY <5>3, <7>1, <7>2
          <6>3. CASE j \in 1..Len(u)
            BY ONLY <5>1, <5>3, <5>4, <5>5, <6>1, <6>3
          <6> QED BY SMT, <5>3, <6>2, <6>3
        <5> QED BY <5>5
      <4>4. \A k \in 1..Len(t) : t[k] \in S => \E i \in 1..Len(v) : h[i] = k
        <5>1. h[Len(u) + 1] = Len(t) /\ Len(u) + 1 \in 1..Len(v)
          BY SMT
        <5>2. ASSUME NEW k \in 1..Len(s), t[k] \in S PROVE \E i \in 1..Len(v) : h[i] = k
          <6>1. PICK i \in 1..Len(u) : g[i] = k
            BY <5>2
          <6>2. h[i] = k /\ i \in 1..Len(v)
            BY SMT, <6>1
          <6> QED BY <6>2
        <5>3. Len(s) \in Nat /\ Len(t) = Len(s) + 1
          BY SMT
        <5>4. \A k \in 1..Len(t) : k \in 1..Len(s) \/ k = Len(t)
          BY ONLY SMT, <5>3
        <5> HIDE DEF h
        <5> QED BY ONLY Zenon, <5>1, <5>2, <5>4
      <4> QED BY <4>1, <4>2, <4>3, <4>4 DEF Places, v
    <3> QED BY <3>2, <3>3
  <2> QED BY <2>7, <2>8
<1> HIDE DEF G
<1>3. Seq(A) \subseteq G
  BY <1>1, <1>2, SeqInduction
<1> QED BY <1>3 DEF G

(* Filtering twice is filtering once. *)
LEMMA FilteredTwice ==
  ASSUME NEW A, NEW S, NEW T
  PROVE  \A s \in Seq(A) : Filtered(Filtered(s, T), S) = Filtered(s, S \cap T)
<1> USE Zenon
<1> DEFINE G == {s \in Seq(A) : Filtered(Filtered(s, T), S) = Filtered(s, S \cap T)}
<1>1. <<>> \in G
  BY SMT, FilteredStep
<1>2. ASSUME NEW s \in Seq(A), NEW e \in A, s \in G PROVE Append(s, e) \in G
  <2>1. Filtered(s, T) \in Seq(A) /\ Append(s, e) \in Seq(A)
    <3>1. Filtered(s, T) \in Seq(A \cap T)
      BY FilteredPlaces
    <3> QED BY SMT, <3>1
  <2> SUFFICES Filtered(Filtered(Append(s, e), T), S) = Filtered(Append(s, e), S \cap T)
    BY <2>1
  <2>2. Filtered(Filtered(s, T), S) = Filtered(s, S \cap T)
    BY <1>2
  <2>3. CASE e \in S /\ e \in T
    <3>1. Filtered(Append(s, e), T) = Append(Filtered(s, T), e)
      BY SMT, <2>3, FilteredPush
    <3>2. Filtered(Append(Filtered(s, T), e), S) = Append(Filtered(Filtered(s, T), S), e)
      BY SMT, <2>1, <2>3, FilteredPush
    <3>3. Filtered(Append(s, e), S \cap T) = Append(Filtered(s, S \cap T), e)
      BY SMT, <2>3, FilteredPush
    <3> QED BY <2>2, <3>1, <3>2, <3>3
  <2>4. CASE e \notin S /\ e \in T
    <3>1. Filtered(Append(s, e), T) = Append(Filtered(s, T), e)
      BY SMT, <2>4, FilteredPush
    <3>2. Filtered(Append(Filtered(s, T), e), S) = Filtered(Filtered(s, T), S)
      BY <2>1, <2>4, FilteredSkip
    <3>3. Filtered(Append(s, e), S \cap T) = Filtered(s, S \cap T)
      BY <2>4, FilteredSkip
    <3> QED BY <2>2, <3>1, <3>2, <3>3
  <2>5. CASE e \notin T
    <3>1. Filtered(Append(s, e), T) = Filtered(s, T)
      BY <2>5, FilteredSkip
    <3>2. Filtered(Append(s, e), S \cap T) = Filtered(s, S \cap T)
      BY <2>5, FilteredSkip
    <3> QED BY <2>2, <3>1, <3>2
  <2> QED BY <2>3, <2>4, <2>5
<1> HIDE DEF G
<1>3. Seq(A) \subseteq G
  BY <1>1, <1>2, SeqInduction
<1> QED BY <1>3 DEF G

(* A sequence whose elements are all in S stays as it is. *)
LEMMA FilteredAll ==
  ASSUME NEW S
  PROVE  \A s \in Seq(S) : Filtered(s, S) = s
<1> DEFINE G == {s \in Seq(S) : Filtered(s, S) = s}
<1>1. <<>> \in G
  BY FilteredStep
<1>2. ASSUME NEW s \in Seq(S), NEW e \in S, s \in G PROVE Append(s, e) \in G
  <2>1. Filtered(Append(s, e), S) = Append(Filtered(s, S), e)
    BY FilteredPush
  <2> QED BY <1>2, <2>1
<1> HIDE DEF G
<1>3. Seq(S) \subseteq G
  BY <1>1, <1>2, SeqInduction
<1> QED BY <1>3 DEF G

-----------------------------------------------------------------------------
(* The authenticators and the checks before a provider is called *)

(* What the authenticator that a request asks for makes of it. *)
LEMMA Authentication ==
  ASSUME NEW r \in Request
  PROVE  LET app == Authenticate(service, r)
         IN  /\ app.status = "Success" <=> r.readable /\ (r.auth_type = "NoAuth" \/ Proven(r))
             /\ app.status \notin {"Execute", "WrongProviderId"}
             /\ app.status = "Success" =>
                  /\ app.name = Identity(r)
                  /\ app.name # Missing <=> Proven(r)
                  /\ Proven(r) => (app.is_admin <=> Identity(r) \in service.authenticators[r.auth_type].admins)
<1> USE Zenon
<1>1. CASE ~r.readable
  BY <1>1 DEF Authenticate, Refused
<1>2. CASE r.readable /\ r.auth_type = "NoAuth"
  BY <1>2 DEF Authenticate, Refused, Proven, Identity
<1>3. CASE r.readable /\ r.auth_type # "NoAuth" /\ r.auth_type \notin DOMAIN service.authenticators
  BY <1>3 DEF Authenticate, Refused, Proven
<1>4. CASE r.readable /\ r.auth_type # "NoAuth" /\ r.auth_type \in DOMAIN service.authenticators
  BY <1>4 DEF Authenticate, Refused, Proven, Identity, DirectAuthenticate, UnixPeerAuthenticate,
     JwtSvidAuthenticate, Application
<1> QED BY <1>1, <1>2, <1>3, <1>4 DEF Request

(* A request that is executed, by its authenticator's leave: the name that *)
(* the provider is called with is the identity behind the request, and an  *)
(* admin operation is executed for an admin only.                          *)
LEMMA Authenticated ==
  ASSUME NEW r \in Request, HandleRequest(service, r) = "Execute",
         r.opcode \in KeyOpcodes \cup AdminOpcodes \cup {"ListKeys"}
  PROVE  /\ Authenticate(service, r).name = Identity(r)
         /\ Identity(r) \in App
         /\ r.opcode \in AdminOpcodes => Identity(r) \in Admins
<1> USE Zenon
<1> DEFINE app == Authenticate(service, r)
<1>1. app.status = "Success" /\ DispatchRequest(service, app, r) = "Execute"
  BY Authentication DEF HandleRequest
<1>2. ExecuteRequest(app, r) = "Execute"
  BY <1>1 DEF DispatchRequest, IsCapable
<1>3. app.name # Missing /\ (r.opcode \in AdminOpcodes => app.is_admin)
  BY <1>2 DEF ExecuteRequest
<1>4. Proven(r) /\ app.name = Identity(r)
  BY <1>1, <1>3, Authentication
<1>5. Identity(r) \in App
  BY <1>4 DEF Proven, Identity, Request
<1>6. r.opcode \in AdminOpcodes => Identity(r) \in Admins
  BY <1>1, <1>3, <1>4, Authentication DEF Proven, Admins
<1> QED BY <1>4, <1>5, <1>6

-----------------------------------------------------------------------------
(* The service that is built *)

Created == {c \in ProviderConfig : GetProvider(c) = "Some"}

(* The list of providers that is built: those that were created, once each *)
(* and in the order of the configuration.                                  *)
LEMMA ProvidersBuilt ==
  ASSUME NEW c \in ServiceConfig, ~ProvidersFail(c)
  PROVE  /\ BuildProviders(c) \in Seq(ProviderId \ {"Core"})
         /\ Len(BuildProviders(c)) = Len(Filtered(c.provider, Created))
         /\ \A i, j \in DOMAIN BuildProviders(c) :
              BuildProviders(c)[i] = BuildProviders(c)[j] => i = j
<1> USE Zenon
<1> DEFINE ps == c.provider
           built == Filtered(ps, Created)
<1>1. ps \in Seq(ProviderConfig)
  BY DEF ServiceConfig
<1>2. PICK g : built \in Seq(ProviderConfig \cap Created) /\ Places(g, ps, Created)
  BY <1>1, FilteredPlaces
<1>3. BuildProviders(c) = [i \in DOMAIN built |-> built[i].id]
  BY DEF BuildProviders, Created
<1> HIDE DEF ps, built
<1>4. /\ Len(built) \in Nat /\ DOMAIN built = 1..Len(built)
      /\ \A i \in 1..Len(built) : built[i] \in ProviderConfig /\ GetProvider(built[i]) = "Some"
  BY SMT, <1>2 DEF Created
<1>5. \A i \in 1..Len(built) : built[i].id \in ProviderId \ {"Core"}
  BY <1>4 DEF ProviderConfig
<1>6. BuildProviders(c) \in Seq(ProviderId \ {"Core"}) /\ Len(BuildProviders(c)) = Len(built)
  BY SMT, <1>3, <1>4, <1>5
<1>7. ASSUME NEW i \in 1..Len(built), NEW j \in 1..Len(built), built[i].id = built[j].id, i < j
      PROVE  FALSE
  <2>1. /\ g[i] \in 1..Len(ps) /\ g[j] \in 1..Len(ps) /\ g[i] < g[j]
        /\ built[i] = ps[g[i]] /\ built[j] = ps[g[j]]
    BY <1>2, <1>7 DEF Places, built
  <2>2. g[i] \in 1..(g[j] - 1) /\ g[j] \in DOMAIN ps
    BY SMT, <1>1, <2>1
  <2> QED BY <1>4, <1>7, <2>1, <2>2 DEF ProvidersFail, ps
<1>8. ASSUME NEW i \in DOMAIN BuildProviders(c), NEW j \in DOMAIN BuildProviders(c),
             BuildProviders(c)[i] = BuildProviders(c)[j]
      PROVE  i = j
  BY SMT, <1>3, <1>4, <1>7, <1>8
<1> QED BY <1>6, <1>8 DEF built, ps

(* What the fields of the service are. *)
LEMMA Built ==
  ASSUME NEW c \in ServiceConfig, BuildService(c) # Missing
  PROVE  /\ ~KeyInfoManagersFail(c) /\ ~ProvidersFail(c)
         /\ BuildProviders(c) # <<>> /\ c.auth_built
         /\ BuildService(c).prov_list = BuildProviders(c)
         /\ BuildService(c).provider_info = Append(BuildProviders(c), "Core")
         /\ BuildService(c).provider_opcodes = ProviderOpcodes(BuildProviders(c))
         /\ BuildService(c).backends = BackendHandlers(BuildProviders(c))
         /\ BuildService(c).authenticators = [t \in {c.auth_type} |-> [admins |-> c.admins]]
  BY Zenon DEF BuildService, CoreProviderInfo, BuildAuthenticators

(* A provider that is skipped has no part in the service. *)
LEMMA Skipped ==
  ASSUME NEW c \in ServiceConfig
  PROVE  /\ BuildService(c) = IF RefusedBeforeSkip(c) THEN Missing
                              ELSE BuildService(WithoutSkipped(c))
         /\ BuildService(c) # Missing =>
              Len(BuildService(c).prov_list) = Len(WithoutSkipped(c).provider)
<1> USE Zenon
<1> DEFINE ps == c.provider
           kept == {v \in ProviderConfig : ~ToSkip(v)}
           d == WithoutSkipped(c)
           qs == d.provider
           names == KeyInfoManagerBuilders(c)
<1>1. ps \in Seq(ProviderConfig)
  BY DEF ServiceConfig
<1>2. /\ qs = Filtered(ps, kept) /\ d.key_manager = c.key_manager
      /\ d.auth_type = c.auth_type /\ d.auth_built = c.auth_built /\ d.admins = c.admins
  BY DEF WithoutSkipped, ServiceConfig
<1>3. PICK g : qs \in Seq(ProviderConfig \cap kept) /\ Places(g, ps, kept)
  BY <1>1, <1>2, FilteredPlaces
<1>4. KeyInfoManagerBuilders(d) = names /\ (KeyInfoManagersFail(d) <=> KeyInfoManagersFail(c))
  BY <1>2 DEF KeyInfoManagerBuilders, KeyInfoManagersFail
<1>5. Created \cap kept = Created
  BY DEF Created, ToSkip, GetProvider
<1> HIDE DEF d, ps, kept, names
<1>6. \A i \in DOMAIN qs : g[i] \in DOMAIN ps /\ qs[i] = ps[g[i]]
  BY SMT, <1>1, <1>2, <1>3 DEF Places
<1>7. \A i, j \in DOMAIN qs : j < i <=> g[j] < g[i]
  BY SMT, <1>1, <1>2, <1>3, <1>6 DEF Places
<1>8. \A i \in DOMAIN ps : ps[i] \in kept => \E k \in DOMAIN qs : g[k] = i
  BY SMT, <1>1, <1>2, <1>3 DEF Places
<1>9. RefusedBeforeSkip(c) => ProvidersFail(c)
  <2> SUFFICES ASSUME NEW i \in DOMAIN ps, ToSkip(ps[i]), ~ProvidersFail(c),
                      \/ \A m \in c.key_manager : m.name # ps[i].key_info_manager
                      \/ \E j \in 1..(i - 1) : ps[j].id = "Tpm" /\ ~ToSkip(ps[j])
               PROVE  FALSE
    BY DEF RefusedBeforeSkip, ps
  <2>1. /\ \A j \in 1..(i - 1) : ~(ps[j].id = ps[i].id /\ GetProvider(ps[j]) = "Some")
        /\ \A j \in DOMAIN ps : GetProvider(ps[j]) # "Err"
        /\ ps[i].key_info_manager \in KeyInfoManagerBuilders(c)
    BY DEF ProvidersFail, ps
  <2>2. PICK j \in 1..(i - 1) : ps[j].id = "Tpm" /\ ~ToSkip(ps[j])
    BY <2>1 DEF KeyInfoManagerBuilders
  <2>3. j \in DOMAIN ps
    BY SMT, <1>1
  <2>4. ps[i].id = "Tpm"
    BY DEF ToSkip
  <2> QED BY <2>1, <2>2, <2>3, <2>4 DEF GetProvider, ToSkip
<1>10. ProvidersFail(d) => ProvidersFail(c)
  <2> SUFFICES ASSUME NEW i \in DOMAIN qs, ~ProvidersFail(c),
                      \/ \E j \in 1..(i - 1) : qs[j].id = qs[i].id /\ GetProvider(qs[j]) = "Some"
                      \/ qs[i].key_info_manager \notin names
                      \/ GetProvider(qs[i]) = "Err"
               PROVE  FALSE
    BY <1>4 DEF ProvidersFail
  <2>1. /\ \A j \in 1..(g[i] - 1) : ~(ps[j].id = ps[g[i]].id /\ GetProvider(ps[j]) = "Some")
        /\ ps[g[i]].key_info_manager \in names /\ GetProvider(ps[g[i]]) # "Err"
    BY <1>6 DEF ProvidersFail, ps, names
  <2>2. \A j \in 1..(i - 1) : j \in DOMAIN qs /\ g[j] \in 1..(g[i] - 1)
    BY SMT, <1>1, <1>3, <1>6, <1>7
  <2> QED BY <1>6, <2>1, <2>2
<1>11. ProvidersFail(c) /\ ~RefusedBeforeSkip(c) => ProvidersFail(d)
  <2> SUFFICES ASSUME NEW i \in DOMAIN ps, ~ProvidersFail(d), ~RefusedBeforeSkip(c),
                      \/ \E j \in 1..(i - 1) : ps[j].id = ps[i].id /\ GetProvider(ps[j]) = "Some"
                      \/ ps[i].key_info_manager \notin names
                      \/ GetProvider(ps[i]) = "Err"
               PROVE  FALSE
    BY DEF ProvidersFail, ps, names
  <2>1. ASSUME NEW j \in 1..(i - 1), GetProvider(ps[j]) = "Some"
        PROVE  j \in DOMAIN ps /\ ps[j] \in kept /\ ~ToSkip(ps[j])
    <3>1. j \in DOMAIN ps /\ ps[j] \in ProviderConfig
      BY SMT, <1>1
    <3>2. ~ToSkip(ps[j])
      BY <2>1 DEF ToSkip, GetProvider
    <3> QED BY <3>1, <3>2 DEF kept
  <2>2. CASE ToSkip(ps[i])
    <3>1. ps[i].key_info_manager \in names
      BY <2>2 DEF RefusedBeforeSkip, KeyInfoManagerBuilders, names, ps
    <3>2. GetProvider(ps[i]) # "Err" /\ ps[i].id = "Tpm"
      BY <2>2 DEF ToSkip, GetProvider
    <3> QED BY <2>1, <2>2, <3>1, <3>2 DEF RefusedBeforeSkip, ps
  <2>3. CASE ~ToSkip(ps[i])
    <3>1. PICK k \in DOMAIN qs : g[k] = i
      <4>1. ps[i] \in kept
        BY SMT, <1>1, <2>3 DEF kept
      <4> QED BY <1>8, <4>1
    <3>2. /\ \A m \in 1..(k - 1) : ~(qs[m].id = qs[k].id /\ GetProvider(qs[m]) = "Some")
          /\ qs[k].key_info_manager \in names /\ GetProvider(qs[k]) # "Err"
      BY <1>4, <3>1 DEF ProvidersFail
    <3>3. PICK j \in 1..(i - 1) : ps[j].id = ps[i].id /\ GetProvider(ps[j]) = "Some"
      BY <1>6, <3>1, <3>2
    <3>4. PICK m \in DOMAIN qs : g[m] = j
      BY <1>8, <2>1, <3>3
    <3>5. m \in 1..(k - 1)
      BY SMT, <1>1, <1>3, <1>7, <3>1, <3>4
    <3> QED BY <1>6, <3>1, <3>2, <3>3, <3>4, <3>5
  <2> QED BY <2>2, <2>3
<1>12. Filtered(qs, Created) = Filtered(ps, Created)
  BY SMT, <1>1, <1>2, <1>5, FilteredTwice
<1>13. BuildProviders(d) = BuildProviders(c)
  BY <1>12 DEF BuildProviders, Created, ps
<1>14. BuildService(c) = IF RefusedBeforeSkip(c) THEN Missing ELSE BuildService(d)
  <2>1. CASE RefusedBeforeSkip(c)
    BY <1>9, <2>1 DEF BuildService
  <2>2. CASE ~RefusedBeforeSkip(c)
    BY <1>2, <1>4, <1>10, <1>11, <1>13, <2>2 DEF BuildService, BuildAuthenticators
  <2> QED BY <2>1, <2>2
<1>15. ASSUME BuildService(c) # Missing
       PROVE  Len(BuildService(c).prov_list) = Len(qs)
  <2>1. ~ProvidersFail(c) /\ ~ProvidersFail(d)
    BY <1>10, <1>15, Built
  <2>2. \A i \in DOMAIN qs : qs[i] \in Created
    <3> SUFFICES ASSUME NEW i \in DOMAIN qs PROVE qs[i] \in Created
      OBVIOUS
    <3>1. qs[i] \in ProviderConfig /\ qs[i] \in kept
      BY SMT, <1>3
    <3>2. GetProvider(qs[i]) # "Err"
      BY <2>1 DEF ProvidersFail
    <3> QED BY <3>1, <3>2 DEF Created, kept, ToSkip, GetProvider
  <2>3. qs \in Seq(Created)
    BY SMT, <1>3, <2>2
  <2>4. Filtered(qs, Created) = qs
    BY <2>3, FilteredAll
  <2> QED BY <1>12, <1>15, <2>1, <2>4, Built, ProvidersBuilt DEF ps
<1> QED BY <1>14, <1>15 DEF d

(* The front end, the authenticator, the dispatcher and the back end       *)
(* handler decide as they should.                                          *)
LEMMA Decided ==
  ASSUME NEW c \in ServiceConfig, BuildService(c) # Missing, service = BuildService(c),
         NEW r \in Request
  PROVE  /\ HandleRequest(service, r) = "Execute" <=> Entitled(r)
         /\ HandleRequest(service, r) # "WrongProviderId"
<1> USE Zenon
<1> DEFINE app == Authenticate(service, r)
           providers == Elements(service.prov_list) \cup {"Core"}
<1>1. /\ service.authenticators = [t \in {c.auth_type} |-> [admins |-> c.admins]]
      /\ service.backends = [v \in providers |->
           [provider_id |-> v, content_type |-> "Protobuf", accept_type |-> "Protobuf"]]
  BY Built DEF BackendHandlers
<1>2. Proven(r) => service.authenticators[r.auth_type].admins = Admins
  BY SMT, <1>1 DEF Proven, Admins
<1>3. CASE app.status # "Success"
  <2>1. ~(r.readable /\ (r.auth_type = "NoAuth" \/ Proven(r)))
    BY <1>3, Authentication
  <2>2. app.status \notin {"Execute", "WrongProviderId"}
    BY Authentication
  <2>3. HandleRequest(service, r) = app.status
    BY <1>3 DEF HandleRequest
  <2> QED BY <2>1, <2>2, <2>3 DEF Entitled
<1>4. CASE app.status = "Success" /\ r.provider \notin providers
  <2>1. HandleRequest(service, r) = "ProviderNotRegistered"
    BY <1>1, <1>4 DEF HandleRequest, DispatchRequest
  <2> QED BY <1>4, <2>1 DEF Entitled
<1>5. CASE app.status = "Success" /\ r.provider \in providers
  <2> DEFINE capable == IsCapable(service.backends[r.provider], r)
  <2>1. /\ capable = "Success" <=> /\ r.opcode \in Opcodes(r.provider)
                                  /\ r.content_type = "Protobuf" /\ r.accept_type = "Protobuf"
        /\ capable \notin {"Execute", "WrongProviderId"}
    BY SMT, <1>1, <1>5 DEF IsCapable, Opcodes, Request, Opcode, CoreOpcodes, KeyOpcodes, KeylessOpcodes,
       InfoOpcodes, AdminOpcodes
  <2>2. HandleRequest(service, r) = IF capable = "Success" THEN ExecuteRequest(app, r) ELSE capable
    BY <1>1, <1>5 DEF HandleRequest, DispatchRequest
  <2>3. /\ ExecuteRequest(app, r) = "Execute" <=>
             /\ r.opcode \in AdminOpcodes => app.name # Missing /\ app.is_admin
             /\ r.body_ok
             /\ r.opcode \in KeyOpcodes \cup {"ListKeys"} => app.name # Missing
        /\ ExecuteRequest(app, r) # "WrongProviderId"
    BY DEF ExecuteRequest, Request
  <2>4. /\ r.readable /\ (r.auth_type = "NoAuth" \/ Proven(r))
        /\ app.name # Missing <=> Proven(r)
        /\ Proven(r) => (app.is_admin <=> Identity(r) \in Admins)
    BY <1>2, <1>5, Authentication
  <2> HIDE DEF capable, app
  <2> QED BY <1>5, <2>1, <2>2, <2>3, <2>4 DEF Entitled
<1> QED BY <1>3, <1>4, <1>5

(* What is listed is there, and can be asked for. *)
LEMMA Listed ==
  ASSUME NEW c \in ServiceConfig, BuildService(c) # Missing, service = BuildService(c)
  PROVE  /\ \A i, j \in DOMAIN service.provider_info :
              service.provider_info[i] = service.provider_info[j] => i = j
         /\ Elements(service.provider_info) = DOMAIN service.provider_opcodes
         /\ \A v \in Elements(service.provider_info) : \A o \in service.provider_opcodes[v] :
              \E r \in Request : /\ r.provider = v /\ r.opcode = o
                                 /\ HandleRequest(service, r) = "Execute"
<1> USE Zenon
<1> DEFINE ps == service.prov_list
           info == service.provider_info
<1>1. ps \in Seq(ProviderId \ {"Core"}) /\ \A i, j \in DOMAIN ps : ps[i] = ps[j] => i = j
  <2>1. ~ProvidersFail(c) /\ ps = BuildProviders(c)
    BY Built
  <2> HIDE DEF ps
  <2> QED BY <2>1, ProvidersBuilt
<1>2. /\ info = Append(ps, "Core")
      /\ service.provider_opcodes = [v \in Elements(ps) \cup {"Core"} |->
           IF v = "Core" THEN CoreSupportedOpcodes ELSE Describe(v)]
      /\ service.authenticators = [t \in {c.auth_type} |-> [admins |-> c.admins]]
  BY Built DEF ProviderOpcodes
<1> HIDE DEF ps, info
<1>3. /\ DOMAIN info = 1..(Len(ps) + 1) /\ DOMAIN ps = 1..Len(ps) /\ Len(ps) \in Nat
      /\ info[Len(ps) + 1] = "Core"
      /\ \A i \in DOMAIN ps : info[i] = ps[i] /\ ps[i] \in ProviderId \ {"Core"}
  BY SMT, <1>1, <1>2
<1>4. \A i \in DOMAIN info : i \in DOMAIN ps \/ i = Len(ps) + 1
  BY SMT, <1>3
<1>5. \A i, j \in DOMAIN info : info[i] = info[j] => i = j
  BY <1>1, <1>3, <1>4
<1>6. Elements(info) = Elements(ps) \cup {"Core"}
  <2>1. Elements(info) \subseteq Elements(ps) \cup {"Core"}
    BY <1>3, <1>4 DEF Elements
  <2>2. \A i \in DOMAIN ps : i \in DOMAIN info
    BY SMT, <1>3
  <2>3. "Core" \in Elements(info)
    BY SMT, <1>3 DEF Elements
  <2> QED BY <1>3, <2>1, <2>2, <2>3 DEF Elements
<1>7. ASSUME NEW v \in Elements(info), NEW o \in service.provider_opcodes[v]
      PROVE  \E r \in Request : /\ r.provider = v /\ r.opcode = o
                                /\ HandleRequest(service, r) = "Execute"
  <2>1. v \in ProviderId
    BY <1>3, <1>6 DEF Elements, ProviderId
  <2>2. /\ o \in Opcode /\ o \in Opcodes(v) /\ o \notin AdminOpcodes
    <3>1. o \in IF v = "Core" THEN CoreSupportedOpcodes ELSE Describe(v)
      BY <1>2, <1>6, <1>7
    <3>2. CoreSupportedOpcodes \subseteq CoreOpcodes \ AdminOpcodes
      BY DEF CoreSupportedOpcodes, CoreOpcodes, InfoOpcodes, AdminOpcodes
    <3>3. v # "Core" => Describe(v) \subseteq KeyOpcodes \cup KeylessOpcodes
      BY SMT, <2>1 DEF Describe, ProviderId, MbedSupportedOpcodes, Pkcs11SupportedOpcodes,
         TpmSupportedOpcodes, CalSupportedOpcodes, TrustedServiceSupportedOpcodes,
         KeyOpcodes, KeylessOpcodes
    <3>4. (KeyOpcodes \cup KeylessOpcodes) \cap AdminOpcodes = {}
      BY DEF KeyOpcodes, KeylessOpcodes, AdminOpcodes
    <3> QED BY <3>1, <3>2, <3>3, <3>4 DEF Opcode, Opcodes
  <2>3. PICK app \in App, n \in KeyName : app # Missing
    BY NamesAssumption
  <2> DEFINE r == [readable |-> TRUE, body_ok |-> TRUE,
                   content_type |-> "Protobuf", accept_type |-> "Protobuf",
                   auth_type |-> c.auth_type, auth |-> app, peer |-> app,
                   provider |-> v, opcode |-> o, name |-> n, client |-> app]
  <2>4. c.auth_type \in AuthType \ {"NoAuth"}
    BY DEF ServiceConfig
  <2>5. r \in Request
    BY <2>1, <2>2, <2>3, <2>4 DEF Request
  <2>6. Proven(r)
    BY <1>2, <2>3, <2>4 DEF Proven, Identity
  <2>7. Entitled(r)
    BY <1>6, <2>2, <2>6 DEF Entitled, ps
  <2>8. HandleRequest(service, r) = "Execute"
    BY <2>5, <2>7, Decided
  <2> QED BY <2>5, <2>8
<1> QED BY <1>2, <1>5, <1>6, <1>7 DEF info
-----------------------------------------------------------------------------
(* The inductive invariant *)

(* The service is one that was built from a configuration, and a request   *)
(* is handled only once it listens.                                        *)
ServiceInv ==
  /\ phase \in {"start", "built", "listening", "exited"}
  /\ phase \in {"start", "exited"} => service = Missing
  /\ phase \in {"built", "listening"} =>
       service # Missing /\ \E c \in Configs : service = BuildService(c)
  /\ phase # "listening" => \A p \in Thread : Idle(p)

Types ==
  /\ TpmTypeOK
  /\ who \in [Thread -> App \cup {Missing}]
  /\ task \in [Thread -> Core!Task \cup {None}]
  /\ stable \in [Thread -> SUBSET KeyTriple]
  /\ \A p \in Thread : pc[p] # "idle" => task[p] = None /\ arg[p] \in KeyTriple

(* A thread has the lock from before it reads the mapping until it is done *)
(* with the TPM, so that nobody else stores a mapping meanwhile: all that  *)
(* can happen to the one it has read is that it is removed.                *)
LockInv ==
  \A p \in Thread :
    /\ pc[p] \in {"insert", "attributes", "operate"} => esapi_context = p
    /\ pc[p] = "attributes" => key_store[arg[p]] \in {ctx[p], None}
    /\ pc[p] = "operate" => ctx[p] = attr[p]

(* A thread works on keys of the identity behind its request, unless this  *)
(* is an admin who lists or deletes clients.                               *)
OwnInv ==
  \A p \in Thread :
    /\ pc[p] # "idle" => who[p] = arg[p][1]
    /\ task[p] # None =>
         /\ IF task[p].op = "ListKeys" THEN who[p] = task[p].app ELSE who[p] \in Admins
         /\ \A t \in task[p].keys : t[1] = task[p].app

(* Whether the request k of the core provider is about key t. *)
Concerns(k, t) == k.op = "ListClients" \/ t[1] = k.app

(* Request k has listed key t. *)
Found(k, t) == \/ k.op = "ListKeys" /\ t \in k.result
               \/ k.op = "ListClients" /\ t[1] \in k.result

(* What the loops over the providers have done so far: a key that has been *)
(* there all the time belongs to a provider yet to come, or was found, or  *)
(* was hidden by an error.                                                 *)
Looping(k, S) ==
  /\ \A t \in S : Concerns(k, t) =>
       t \in k.skipped \/ t[2] \in Elements(k.todo) \/ Found(k, t)
  /\ k.op = "ListKeys" => \A t \in k.result : t[1] = k.app
  /\ k.keys # {} =>
       /\ k.todo # <<>>
       /\ \A t \in S : t[1] = k.app /\ t[2] = Head(k.todo) => t \in k.keys \cup k.skipped

CoreInv ==
  \A p \in Thread :
    /\ \A t \in stable[p] : key_store[t] # None
    /\ task[p] # None => Looping(task[p], stable[p])

-----------------------------------------------------------------------------
(* The steps of the TPM provider, as far as the invariant goes *)

Locked == {"insert", "attributes", "operate"}

(* Thread p begins a request about triple t. *)
Started(p, t) ==
  \E o \in Creations \cup Uses \cup {"PsaDestroyKey"}, s \in {"create", "attributes", "remove"},
     c, a \in Attr \cup {None} :
    /\ Begin(p, o, t, s, c, a)
    /\ s = "attributes" => esapi_context = None /\ esapi_context' = p /\ c = key_store[t]
    /\ s # "attributes" => esapi_context' = esapi_context

(* Thread p has the lock, and a key to store. *)
Made(p) ==
  /\ pc[p] = "create" /\ esapi_context = None
  /\ esapi_context' = p
  /\ ctx' = [ctx EXCEPT ![p] = attr[p]]
  /\ pc' = [pc EXCEPT ![p] = "insert"]
  /\ UNCHANGED <<kim, op, arg, attr, response>>

(* Thread p has read the attributes of its key. *)
Read(p) ==
  /\ pc[p] = "attributes" /\ key_store[arg[p]] # None
  /\ attr' = [attr EXCEPT ![p] = key_store[arg[p]]]
  /\ pc' = [pc EXCEPT ![p] = "operate"]
  /\ UNCHANGED <<kim, op, arg, ctx, response, esapi_context>>

(* Thread p returns; a mapping is stored by one that has the lock.         *)
Returned(p) ==
  /\ pc[p] # "idle"
  /\ Return(p, TRUE) \/ Return(p, FALSE)
  /\ pc[p] \in Locked => esapi_context' = None
  /\ pc[p] \notin Locked => esapi_context' = esapi_context
  /\ \/ key_store' = key_store
     \/ key_store' = [key_store EXCEPT ![arg[p]] = None]
     \/ pc[p] = "insert" /\ key_store' = [key_store EXCEPT ![arg[p]] = attr[p]]

(* How a request of the TPM provider starts. *)
LEMMA TpmStarts ==
  ASSUME TpmTypeOK, NEW p \in Thread, NEW o, NEW t \in KeyTriple, TpmStart(p, o, t)
  PROVE  UNCHANGED kim /\ Started(p, t)
<1> USE Zenon
<1>1. ASSUME NEW a \in Attr, PsaGenerateKey(p, t, a) \/ PsaImportKey(p, t, a)
      PROVE  UNCHANGED kim /\ Started(p, t)
  BY <1>1 DEF PsaGenerateKey, PsaImportKey, Started, Creations
<1>2. ASSUME NEW u \in Uses, UseKey(p, u, t)
      PROVE  UNCHANGED kim /\ Started(p, t)
  <2>1. key_store[t] \in Attr \cup {None}
    BY DEF TpmTypeOK
  <2> QED BY <1>2, <2>1 DEF UseKey, Started
<1>3. CASE PsaDestroyKey(p, t)
  BY <1>3 DEF PsaDestroyKey, Started
<1> QED BY <1>1, <1>2, <1>3 DEF TpmStart, PsaExportPublicKey, PsaSignHash, PsaVerifyHash,
        PsaAsymmetricEncrypt, PsaAsymmetricDecrypt, Uses

(* How it goes on. *)
LEMMA TpmContinues ==
  ASSUME NEW p \in Thread, TpmContinue(p)
  PROVE  Made(p) \/ Read(p) \/ Returned(p)
<1> USE Zenon
<1>1. CASE CreateKey(p)
  BY <1>1 DEF CreateKey, Made, Returned, Locked, kim
<1>2. CASE Insert(p)
  <2>1. \A ok : Return(p, ok) => Return(p, TRUE) \/ Return(p, FALSE)
    BY DEF Return
  <2> QED BY <1>2, <2>1 DEF Insert, Returned, Locked, InsertKeyInfo, InsertFails
<1>3. CASE GetKeyAttributes(p)
  BY <1>3 DEF GetKeyAttributes, Read, Returned, Locked, kim, DoesNotExist
<1>4. CASE Operate(p)
  <2>1. \A ok : Return(p, ok) => Return(p, TRUE) \/ Return(p, FALSE)
    BY DEF Return
  <2> QED BY <1>4, <2>1 DEF Operate, Returned, Locked, kim
<1>5. CASE RemoveKey(p)
  BY <1>5 DEF RemoveKey, Returned, Locked, RemoveKeyInfo, kim
<1> QED BY <1>1, <1>2, <1>3, <1>4, <1>5 DEF TpmContinue

-----------------------------------------------------------------------------
(* The steps of the service, as far as the invariant goes *)

(* Nothing is handled yet. *)
Starting ==
  /\ phase \in {"start", "built"}
  /\ UNCHANGED <<key_store, esapi_context, tpm_local, core_vars, who>>

(* Thread p begins a request about a key of the identity behind it. *)
TpmBegins(p) ==
  \E t \in KeyTriple :
    /\ Idle(p) /\ phase = "listening"
    /\ Started(p, t)
    /\ Core!UpdateStable
    /\ who' = [who EXCEPT ![p] = t[1]]
    /\ UNCHANGED <<kim, task, phase, service>>

(* Thread p begins a request to the core provider; only an admin deletes.  *)
CoreBegins(p) ==
  \E o \in {"ListKeys", "ListClients", "DeleteClient"}, app, w \in App :
    /\ Idle(p) /\ phase = "listening"
    /\ Core!CoreStart(p, o, app, service.prov_list)
    /\ IF o = "ListKeys" THEN w = app ELSE w \in Admins
    /\ who' = [who EXCEPT ![p] = w]
    /\ UNCHANGED <<esapi_context, tpm_local, phase, service>>

TpmGoesOn(p) ==
  /\ Made(p) \/ Read(p) \/ Returned(p)
  /\ Core!UpdateStable
  /\ who' = [who EXCEPT ![p] = IF pc'[p] = "idle" THEN Missing ELSE @]
  /\ UNCHANGED <<task, phase, service>>

CoreGoesOn(p) ==
  /\ Core!CoreContinue(p)
  /\ who' = [who EXCEPT ![p] = IF task'[p] = None THEN Missing ELSE @]
  /\ UNCHANGED <<esapi_context, tpm_local, phase, service>>

(* A step is of one of these kinds. *)
LEMMA Steps ==
  ASSUME Types, Next
  PROVE  Starting \/ \E p \in Thread : \/ TpmBegins(p) \/ CoreBegins(p)
                                      \/ TpmGoesOn(p) \/ CoreGoesOn(p)
<1> USE Zenon
<1>1. CASE StartListener \/ Build
  BY <1>1 DEF StartListener, Build, Starting, tpm_vars, kim
<1>2. ASSUME NEW p \in Thread, NEW r \in Traffic, Handle(p, r), ExecuteKeyOperation(p, r)
      PROVE  TpmBegins(p)
  <2> DEFINE t == <<Authenticate(service, r).name, "Tpm", r.name>>
  <2>1. r \in Request
    BY InputsAssumption
  <2>2. TpmStart(p, r.opcode, t) /\ Core!UpdateStable /\ UNCHANGED task
    BY <1>2 DEF ExecuteKeyOperation, TpmStep
  <2>3. r.opcode \in KeyOpcodes
    BY <2>2 DEF TpmStart, KeyOpcodes
  <2>4. HandleRequest(service, r) = "Execute"
    BY <1>2 DEF Handle
  <2>5. Authenticate(service, r).name = Identity(r) /\ Identity(r) \in App
    BY <2>1, <2>3, <2>4, Authenticated
  <2>6. t \in KeyTriple /\ t[1] = Identity(r)
    <3>1. r.name \in KeyName
      BY <2>1 DEF Request
    <3> QED BY <2>5, <3>1, NamesAssumption
  <2> HIDE DEF t
  <2>7. UNCHANGED kim /\ Started(p, t)
    BY <2>2, <2>6, TpmStarts DEF Types
  <2>8. /\ Idle(p) /\ phase = "listening" /\ UNCHANGED <<phase, service>>
        /\ who' = [who EXCEPT ![p] = t[1]]
    BY <1>2, <2>6 DEF Handle
  <2> QED BY <2>2, <2>6, <2>7, <2>8 DEF TpmBegins
<1>3. ASSUME NEW p \in Thread, NEW r \in Traffic, Handle(p, r), ExecuteCoreOperation(p, r)
      PROVE  CoreBegins(p)
  <2> DEFINE app == IF r.opcode = "DeleteClient" THEN r.client ELSE Authenticate(service, r).name
  <2>1. r \in Request
    BY InputsAssumption
  <2>2. /\ r.opcode \in AdminOpcodes \cup {"ListKeys"}
        /\ Core!CoreStart(p, r.opcode, app, service.prov_list)
        /\ UNCHANGED <<esapi_context, tpm_local>>
    BY <1>3 DEF ExecuteCoreOperation
  <2>3. HandleRequest(service, r) = "Execute"
    BY <1>3 DEF Handle
  <2>4. /\ Authenticate(service, r).name = Identity(r) /\ Identity(r) \in App
        /\ r.opcode \in AdminOpcodes => Identity(r) \in Admins
    BY <2>1, <2>2, <2>3, Authenticated
  <2>5. app \in App
    BY <2>1, <2>4 DEF Request
  <2>6. /\ r.opcode \in {"ListKeys", "ListClients", "DeleteClient"}
        /\ r.opcode # "ListKeys" => r.opcode \in AdminOpcodes
    BY <2>2 DEF AdminOpcodes
  <2>8. IF r.opcode = "ListKeys" THEN Identity(r) = app ELSE Identity(r) \in Admins
    BY <2>4, <2>6
  <2> HIDE DEF app
  <2>7. /\ Idle(p) /\ phase = "listening" /\ UNCHANGED <<phase, service>>
        /\ who' = [who EXCEPT ![p] = Identity(r)]
    BY <1>3 DEF Handle
  <2> QED BY <2>2, <2>4, <2>5, <2>6, <2>7, <2>8 DEF CoreBegins
<1>4. ASSUME NEW p \in Thread, Continue(p), TpmStep(p, TpmContinue(p))
      PROVE  TpmGoesOn(p)
  <2>1. Made(p) \/ Read(p) \/ Returned(p)
    BY <1>4, TpmContinues DEF TpmStep
  <2>2. pc[p] # "idle"
    BY <2>1 DEF Made, Read, Returned
  <2>3. task'[p] = None
    BY <1>4, <2>2 DEF TpmStep, Types
  <2> QED BY <1>4, <2>1, <2>3 DEF TpmGoesOn, TpmStep, Continue, Idle
<1>5. ASSUME NEW p \in Thread, Continue(p), Core!CoreContinue(p),
             UNCHANGED <<esapi_context, tpm_local>>
      PROVE  CoreGoesOn(p)
  <2>1. task[p] # None
    BY <1>5 DEF Core!CoreContinue, Core!ListKeys, Core!ListClients, Core!DeleteClientList,
       Core!DeleteClientDestroy, Core!CoreReturn, Core!InLoop
  <2>2. pc'[p] = "idle"
    BY <1>5, <2>1 DEF Types, tpm_local
  <2> QED BY <1>5, <2>2 DEF CoreGoesOn, Continue, Idle
<1>6. ASSUME NEW p \in Thread, NEW r \in Traffic, Handle(p, r)
      PROVE  ExecuteKeyOperation(p, r) \/ ExecuteCoreOperation(p, r)
  BY <1>6 DEF Handle
<1>7. ASSUME NEW p \in Thread, Continue(p)
      PROVE  \/ TpmStep(p, TpmContinue(p))
             \/ Core!CoreContinue(p) /\ UNCHANGED <<esapi_context, tpm_local>>
  BY <1>7 DEF Continue
<1> QED BY <1>1, <1>2, <1>3, <1>4, <1>5, <1>6, <1>7 DEF Next

-----------------------------------------------------------------------------
(* The invariant holds initially and is preserved *)

(* The providers of a service that listens. *)
LEMMA ProviderList ==
  ASSUME ServiceInv, phase \in {"built", "listening"}
  PROVE  service.prov_list \in Seq(ProviderId \ {"Core"}) /\ service.prov_list # <<>>
<1> USE Zenon
<1>1. PICK c \in Configs : service = BuildService(c) /\ service # Missing
  BY DEF ServiceInv
<1>2. c \in ServiceConfig
  BY InputsAssumption
<1>3. service.prov_list = BuildProviders(c) /\ BuildProviders(c) # <<>> /\ ~ProvidersFail(c)
  BY <1>1, <1>2, Built
<1> QED BY <1>2, <1>3, ProvidersBuilt

(* Service and phase. *)
LEMMA ServiceKept ==
  ASSUME Types, ServiceInv, Next
  PROVE  ServiceInv'
<1> USE Zenon
<1>1. CASE Build
  <2>1. \A p \in Thread : Idle(p)'
    BY <1>1 DEF Build, ServiceInv, Idle, tpm_vars, tpm_local, core_vars
  <2> QED BY <1>1, <2>1 DEF Build, ServiceInv
<1>2. CASE StartListener
  <2>1. \A p \in Thread : Idle(p)'
    BY <1>2 DEF StartListener, ServiceInv, Idle, tpm_vars, tpm_local, core_vars
  <2> QED BY <1>2, <2>1 DEF StartListener, ServiceInv
<1>3. ASSUME NEW p \in Thread, \/ TpmBegins(p) \/ CoreBegins(p) \/ TpmGoesOn(p) \/ CoreGoesOn(p)
      PROVE  UNCHANGED <<phase, service>> /\ phase = "listening"
  <2>1. pc[p] # "idle" \/ task[p] # None => phase = "listening"
    BY DEF ServiceInv, Idle
  <2>2. CoreGoesOn(p) => task[p] # None
    BY DEF CoreGoesOn, Core!CoreContinue, Core!ListKeys, Core!ListClients, Core!DeleteClientList,
       Core!DeleteClientDestroy, Core!CoreReturn, Core!InLoop
  <2>3. TpmGoesOn(p) => pc[p] # "idle"
    BY DEF TpmGoesOn, Made, Read, Returned
  <2> QED BY <1>3, <2>1, <2>2, <2>3 DEF TpmBegins, CoreBegins, TpmGoesOn, CoreGoesOn
<1>4. ASSUME UNCHANGED <<phase, service>>, phase = "listening" PROVE ServiceInv'
  BY <1>4 DEF ServiceInv
<1>5. ASSUME NEW p \in Thread, (\E r \in Traffic : Handle(p, r)) \/ Continue(p)
      PROVE  UNCHANGED <<phase, service>> /\ phase = "listening"
  <2>1. UNCHANGED <<phase, service>>
    BY <1>5 DEF Handle, Continue
  <2>2. CASE Starting
    <3>1. ~\E r \in Traffic : Handle(p, r)
      BY <2>2 DEF Starting, Handle
    <3>2. Idle(p)
      BY <2>2 DEF Starting, ServiceInv
    <3>3. pc[p] = "idle" /\ task[p] = None
      BY <3>2 DEF Idle
    <3>4. ~TpmContinue(p)
      <4>1. ~(Made(p) \/ Read(p) \/ Returned(p))
        BY <3>3 DEF Made, Read, Returned
      <4> QED BY <4>1, TpmContinues
    <3>5. ~Core!CoreContinue(p)
      BY <3>3 DEF Core!CoreContinue, Core!ListKeys, Core!ListClients, Core!DeleteClientList,
         Core!DeleteClientDestroy, Core!CoreReturn, Core!InLoop
    <3> QED BY <1>5, <3>1, <3>4, <3>5 DEF Continue, TpmStep
  <2>3. CASE ~Starting
    BY <1>3, <2>3, Steps
  <2> QED BY <2>2, <2>3
<1> QED BY <1>1, <1>2, <1>4, <1>5 DEF Next

(* Types of what the TPM provider has. *)
LEMMA TpmTyped ==
  ASSUME Types, NEW p \in Thread, TpmBegins(p) \/ TpmGoesOn(p)
  PROVE  /\ TpmTypeOK'
         /\ \A q \in Thread : pc'[q] # "idle" => task[q] = None /\ arg'[q] \in KeyTriple
<1> USE Zenon
<1>1. CASE TpmBegins(p)
  <2>1. PICK t \in KeyTriple : Started(p, t) /\ UNCHANGED kim /\ task[p] = None
    BY <1>1 DEF TpmBegins, Idle
  <2> QED BY SMT, <2>1 DEF Started, Begin, Types, TpmTypeOK, kim
<1>2. CASE Made(p)
  BY <1>2 DEF Made, Types, TpmTypeOK, kim
<1>3. CASE Read(p)
  BY <1>3 DEF Read, Types, TpmTypeOK, kim
<1>4. CASE Returned(p)
  <2>1. key_store' \in [KeyTriple -> Attr \cup {None}]
    BY <1>4 DEF Returned, Types, TpmTypeOK
  <2>2. esapi_context' \in Thread \cup {None}
    BY <1>4 DEF Returned, Types, TpmTypeOK
  <2> QED BY SMT, <1>4, <2>1, <2>2 DEF Returned, Return, Types, TpmTypeOK
<1> QED BY <1>1, <1>2, <1>3, <1>4 DEF TpmGoesOn

Providers == ProviderId \ {"Core"}

(* What Proceed makes of a task. *)
LEMMA Proceeds ==
  ASSUME Types, NEW p \in Thread, task[p] # None,
         NEW todo \in Seq(Providers), NEW keys \in SUBSET KeyTriple,
         NEW result \in SUBSET (KeyTriple \cup App), NEW skipped \in SUBSET KeyTriple,
         Core!Proceed(p, todo, keys, result, skipped)
  PROVE  /\ task' \in [Thread -> Core!Task \cup {None}]
         /\ task'[p] = [op |-> task[p].op, app |-> task[p].app, todo |-> todo,
                        keys |-> keys, result |-> result, skipped |-> skipped]
         /\ task'[p] \in Core!Task
         /\ \A q \in Thread : q # p => task'[q] = task[q]
<1> USE Zenon
<1> DEFINE k == [op |-> task[p].op, app |-> task[p].app, todo |-> todo,
                 keys |-> keys, result |-> result, skipped |-> skipped]
<1>1. task[p] \in Core!Task
  BY DEF Types
<1>2. k \in Core!Task
  BY <1>1 DEF Core!Task, Providers
<1>3. task' = [task EXCEPT ![p] = k]
  BY DEF Core!Proceed
<1> HIDE DEF k
<1>4. task' \in [Thread -> Core!Task \cup {None}] /\ task'[p] = k /\ task'[p] \in Core!Task
      /\ \A q \in Thread : q # p => task'[q] = task[q]
  BY <1>2, <1>3 DEF Types
<1> QED BY <1>4 DEF k

(* The fields of a task, and what a provider answers. *)
LEMMA Fields ==
  ASSUME Types, NEW p \in Thread, task[p] # None
  PROVE  /\ task[p] \in Core!Task
         /\ task[p].app \in App /\ task[p].todo \in Seq(Providers)
         /\ task[p].keys \in SUBSET KeyTriple /\ task[p].skipped \in SUBSET KeyTriple
         /\ task[p].result \in SUBSET (KeyTriple \cup App)
         /\ \A v : /\ Core!KeysOf(v) \in SUBSET KeyTriple
                   /\ Core!ProviderListKeys(v, task[p].app) \in SUBSET KeyTriple
                   /\ Core!ProviderListClients(v) \in SUBSET App
<1> USE Zenon
<1>1. task[p] \in Core!Task
  BY DEF Types
<1>2. /\ task[p].app \in App /\ task[p].todo \in Seq(Providers)
      /\ task[p].keys \in SUBSET KeyTriple /\ task[p].skipped \in SUBSET KeyTriple
      /\ task[p].result \in SUBSET (KeyTriple \cup App)
  BY <1>1 DEF Core!Task, Providers
<1>3. ASSUME NEW v
      PROVE  /\ Core!KeysOf(v) \in SUBSET KeyTriple
             /\ Core!ProviderListKeys(v, task[p].app) \in SUBSET KeyTriple
             /\ Core!ProviderListClients(v) \in SUBSET App
  BY NamesAssumption DEF Core!KeysOf, Core!ProviderListKeys, Core!ProviderListClients, Core!Mapped
<1> QED BY <1>1, <1>2, <1>3

(* A step of a loop over the providers. *)
Loops(p, todo, keys, result, skipped) ==
  /\ Core!InLoop(p, task[p].op)
  /\ todo \in Seq(Providers) /\ keys \in SUBSET KeyTriple
  /\ result \in SUBSET (KeyTriple \cup App) /\ skipped \in SUBSET KeyTriple
  /\ Core!Proceed(p, todo, keys, result, skipped)

(* The fields of the task after it. *)
LEMMA LoopsTo ==
  ASSUME Types, NEW p \in Thread, NEW todo, NEW keys, NEW result, NEW skipped,
         Loops(p, todo, keys, result, skipped)
  PROVE  /\ task[p] # None /\ task'[p] \in Core!Task
         /\ task'[p].op = task[p].op /\ task'[p].app = task[p].app /\ task'[p].todo = todo
         /\ task'[p].keys = keys /\ task'[p].result = result /\ task'[p].skipped = skipped
         /\ \A q \in Thread : q # p => task'[q] = task[q]
<1>1. task[p] # None
  BY DEF Loops, Core!InLoop
<1>2. /\ task'[p] = [op |-> task[p].op, app |-> task[p].app, todo |-> todo,
                     keys |-> keys, result |-> result, skipped |-> skipped]
      /\ task'[p] \in Core!Task
      /\ \A q \in Thread : q # p => task'[q] = task[q]
  BY <1>1, Proceeds DEF Loops
<1> QED BY <1>1, <1>2

(* The providers that are left when one is done. *)
LEMMA Rest ==
  ASSUME Types, NEW p \in Thread, NEW o, Core!InLoop(p, o)
  PROVE  /\ task[p] # None /\ task[p].op = o /\ task[p].todo # <<>>
         /\ Tail(task[p].todo) \in Seq(Providers)
         /\ Elements(task[p].todo) \subseteq {Head(task[p].todo)} \cup Elements(Tail(task[p].todo))
<1> USE Zenon
<1>1. task[p] # None /\ task[p].op = o /\ task[p].todo # <<>>
  BY DEF Core!InLoop
<1>2. task[p].todo \in Seq(Providers)
  BY <1>1, Fields
<1>3. ASSUME NEW s \in Seq(Providers), s # <<>>
      PROVE  Tail(s) \in Seq(Providers) /\ Elements(s) \subseteq {Head(s)} \cup Elements(Tail(s))
  <2>1. /\ Head(s) = s[1] /\ Tail(s) \in Seq(Providers)
        /\ \A i \in DOMAIN s : i = 1 \/ (i - 1 \in DOMAIN Tail(s) /\ Tail(s)[i - 1] = s[i])
    BY <1>3, HeadTail
  <2>2. \A i \in DOMAIN s : s[i] = Head(s) \/ \E j \in DOMAIN Tail(s) : Tail(s)[j] = s[i]
    BY <2>1
  <2>3. ASSUME NEW e \in Elements(s) PROVE e \in {Head(s)} \cup Elements(Tail(s))
    <3>1. PICK i \in DOMAIN s : e = s[i]
      BY DEF Elements
    <3> QED BY <2>2, <3>1 DEF Elements
  <2> QED BY <2>1, <2>3
<1> QED BY <1>1, <1>2, <1>3

(* A call of a provider that lists. *)
LEMMA ListStep ==
  ASSUME Types, NEW p \in Thread, NEW o, Core!InLoop(p, o),
         NEW found \in SUBSET (KeyTriple \cup App), Core!Listed(p, found) \/ Core!SkipProvider(p)
  PROVE  \/ Loops(p, Tail(task[p].todo), {}, task[p].result \cup found, task[p].skipped \cup {})
         \/ Loops(p, Tail(task[p].todo), {}, task[p].result \cup {},
                  task[p].skipped \cup Core!KeysOf(Head(task[p].todo)))
<1> USE Zenon
<1>1. /\ task[p] # None /\ Tail(task[p].todo) \in Seq(Providers) /\ Core!InLoop(p, task[p].op)
      /\ task[p].result \in SUBSET (KeyTriple \cup App) /\ task[p].skipped \in SUBSET KeyTriple
      /\ Core!KeysOf(Head(task[p].todo)) \in SUBSET KeyTriple
  BY Rest, Fields
<1> QED BY <1>1 DEF Loops, Core!Listed, Core!SkipProvider, Core!Current

(* How a request of the core provider goes on. *)
LEMMA CoreSteps ==
  ASSUME Types, NEW p \in Thread, Core!CoreContinue(p)
  PROVE  \/ Core!CoreReturn(p)
         \/ \E todo, keys, result, skipped : Loops(p, todo, keys, result, skipped)
<1> USE Zenon
<1> DEFINE Goal == \E todo, keys, result, skipped : Loops(p, todo, keys, result, skipped)
<1>1. ASSUME NEW o, Core!InLoop(p, o), NEW found \in SUBSET (KeyTriple \cup App),
             Core!Listed(p, found) \/ Core!SkipProvider(p)
      PROVE  Goal
  BY <1>1, ListStep
<1>2. CASE Core!ListKeys(p)
  <2>1. Core!InLoop(p, "ListKeys")
    BY <1>2 DEF Core!ListKeys
  <2>2. Core!ProviderListKeys(Core!Current(p), task[p].app) \in SUBSET (KeyTriple \cup App)
    BY <2>1, Rest, Fields
  <2> QED BY <1>1, <1>2, <2>1, <2>2 DEF Core!ListKeys
<1>3. CASE Core!ListClients(p)
  <2>1. Core!InLoop(p, "ListClients")
    BY <1>3 DEF Core!ListClients
  <2>2. Core!ProviderListClients(Core!Current(p)) \in SUBSET (KeyTriple \cup App)
    BY <2>1, Rest, Fields
  <2> QED BY <1>1, <1>3, <2>1, <2>2 DEF Core!ListClients
<1>4. CASE Core!DeleteClientList(p)
  <2> DEFINE keys == Core!ProviderListKeys(Core!Current(p), task[p].app)
  <2>1. Core!InLoop(p, "DeleteClient") /\ task[p] # None
    BY <1>4 DEF Core!DeleteClientList, Core!InLoop
  <2>2. keys \in SUBSET KeyTriple /\ {} \in SUBSET (KeyTriple \cup App)
    BY <2>1, Fields
  <2>3. \/ Core!Listed(p, {}) \/ Core!SkipProvider(p)
        \/ Core!Proceed(p, task[p].todo, keys, task[p].result, task[p].skipped)
    BY <1>4 DEF Core!DeleteClientList
  <2> HIDE DEF keys
  <2>4. CASE Core!Proceed(p, task[p].todo, keys, task[p].result, task[p].skipped)
    <3>1. Loops(p, task[p].todo, keys, task[p].result, task[p].skipped)
      BY SMT, <2>1, <2>2, <2>4, Rest, Fields DEF Loops
    <3> QED BY <3>1
  <2> QED BY <1>1, <2>1, <2>2, <2>3, <2>4
<1>5. ASSUME NEW t \in KeyTriple, Core!DeleteClientDestroy(p, t) PROVE Goal
  <2>1. Core!InLoop(p, "DeleteClient") /\ task[p] # None
    BY <1>5 DEF Core!DeleteClientDestroy, Core!InLoop
  <2>2. PICK failed \in {{}, {t}} : Core!Destroyed(p, t, failed)
    BY <1>5 DEF Core!DeleteClientDestroy
  <2> DEFINE todo == IF task[p].keys = {t} THEN Tail(task[p].todo) ELSE task[p].todo
  <2>3. todo \in Seq(Providers)
    BY <2>1, Rest, Fields
  <2> HIDE DEF todo
  <2>4. Loops(p, todo, task[p].keys \ {t}, task[p].result, task[p].skipped \cup failed)
    BY <2>1, <2>2, <2>3, Rest, Fields DEF Loops, Core!Destroyed, todo
  <2> QED BY <2>4
<1> QED BY <1>2, <1>3, <1>4, <1>5 DEF Core!CoreContinue

(* Types hold initially. *)
LEMMA InitTypes ==
  ASSUME Init
  PROVE  Types
<1> USE Zenon
<1>1. key_store \in [KeyTriple -> Attr \cup {None}]
  <2>1. (CHOOSE a \in Attr : TRUE) \in Attr
    BY NamesAssumption
  <2> QED BY <2>1 DEF Init
<1>2. TpmTypeOK
  BY <1>1 DEF Init, TpmInit, TpmTypeOK
<1> QED BY <1>2 DEF Init, TpmInit, Core!CoreInit, Types

(* Types are preserved. *)
LEMMA TypesKept ==
  ASSUME Types, ServiceInv, Next
  PROVE  Types'
<1> USE Zenon
<1>1. CASE Starting
  BY <1>1 DEF Starting, Types, TpmTypeOK, tpm_local, core_vars
<1>2. ASSUME NEW p \in Thread, TpmBegins(p) \/ TpmGoesOn(p) PROVE Types'
  <2>1. /\ TpmTypeOK'
        /\ \A q \in Thread : pc'[q] # "idle" => task[q] = None /\ arg'[q] \in KeyTriple
    BY <1>2, TpmTyped
  <2>2. task' = task /\ stable' = [q \in Thread |-> {t \in stable[q] : key_store'[t] # None}]
    BY <1>2 DEF TpmBegins, TpmGoesOn, Core!UpdateStable
  <2>3. stable' \in [Thread -> SUBSET KeyTriple]
    BY <2>2 DEF Types
  <2>4. who' \in [Thread -> App \cup {Missing}]
    BY <1>2, NamesAssumption DEF TpmBegins, TpmGoesOn, Types
  <2> QED BY <2>1, <2>2, <2>3, <2>4 DEF Types
<1>3. ASSUME NEW p \in Thread, CoreBegins(p) PROVE Types'
  <2>1. PICK o \in {"ListKeys", "ListClients", "DeleteClient"}, app \in App, w \in App :
          /\ Idle(p) /\ phase = "listening"
          /\ Core!CoreStart(p, o, app, service.prov_list)
          /\ who' = [who EXCEPT ![p] = w]
          /\ UNCHANGED <<esapi_context, tpm_local>>
    BY <1>3 DEF CoreBegins
  <2> DEFINE k == [op |-> o, app |-> app, todo |-> service.prov_list,
                   keys |-> {}, result |-> {}, skipped |-> {}]
  <2>2. k \in Core!Task
    BY <2>1, ProviderList DEF Core!Task
  <2>3. /\ task' = [task EXCEPT ![p] = k] /\ UNCHANGED kim
        /\ stable' = [stable EXCEPT ![p] = {t \in Core!Mapped :
                        \E i \in DOMAIN service.prov_list : service.prov_list[i] = t[2]}]
    BY <2>1 DEF Core!CoreStart, Core!kim, kim
  <2> HIDE DEF k
  <2>4. task' \in [Thread -> Core!Task \cup {None}] /\ \A q \in Thread : q # p => task'[q] = task[q]
    BY <2>2, <2>3 DEF Types
  <2>5. stable' \in [Thread -> SUBSET KeyTriple]
    BY <2>3 DEF Types, Core!Mapped
  <2>6. who' \in [Thread -> App \cup {Missing}]
    BY <2>1 DEF Types
  <2>7. TpmTypeOK' /\ pc' = pc /\ arg' = arg
    BY <2>1, <2>3 DEF Types, TpmTypeOK, tpm_local, kim
  <2> QED BY <2>1, <2>4, <2>5, <2>6, <2>7 DEF Types, Idle
<1>4. ASSUME NEW p \in Thread, CoreGoesOn(p) PROVE Types'
  <2>1. /\ task' \in [Thread -> Core!Task \cup {None}] /\ task[p] # None
        /\ \A q \in Thread : q # p => task'[q] = task[q]
    <3>1. CASE Core!CoreReturn(p)
      BY <3>1 DEF Core!CoreReturn, Types
    <3>2. ASSUME NEW todo, NEW keys, NEW result, NEW skipped, Loops(p, todo, keys, result, skipped)
          PROVE  /\ task' \in [Thread -> Core!Task \cup {None}] /\ task[p] # None
                 /\ \A q \in Thread : q # p => task'[q] = task[q]
      <4>1. /\ task[p] # None /\ task'[p] \in Core!Task
            /\ \A q \in Thread : q # p => task'[q] = task[q]
        BY <3>2, LoopsTo
      <4> QED BY <3>2, <4>1, Proceeds DEF Loops
    <3> QED BY <1>4, <3>1, <3>2, CoreSteps DEF CoreGoesOn
  <2>2. key_store' \in [KeyTriple -> Attr \cup {None}]
    BY <1>4 DEF CoreGoesOn, Core!CoreContinue, Core!ListKeys, Core!ListClients,
       Core!DeleteClientList, Core!DeleteClientDestroy, Core!CoreReturn, RemoveKeyInfo,
       Core!RemoveKeyInfo, kim, Core!kim, Types, TpmTypeOK
  <2>3. stable' \in [Thread -> SUBSET KeyTriple]
    BY <1>4 DEF CoreGoesOn, Core!CoreContinue, Core!ListKeys, Core!ListClients,
       Core!DeleteClientList, Core!DeleteClientDestroy, Core!CoreReturn, Core!UpdateStable, Types
  <2>4. TpmTypeOK' /\ pc' = pc /\ arg' = arg
    BY <1>4, <2>2 DEF CoreGoesOn, Types, TpmTypeOK, tpm_local
  <2>5. who' \in [Thread -> App \cup {Missing}]
    BY <1>4 DEF CoreGoesOn, Types
  <2> QED BY <2>1, <2>3, <2>4, <2>5 DEF Types
<1> QED BY <1>1, <1>2, <1>3, <1>4, Steps

(* The lock, and what its holder has read. *)
LEMMA LockKept ==
  ASSUME Types, LockInv, Next
  PROVE  LockInv'
<1> USE Zenon, NoneAssumption
<1>1. CASE Starting
  BY <1>1 DEF Starting, LockInv, tpm_local
<1>2. ASSUME NEW p \in Thread, TpmBegins(p) PROVE LockInv'
  <2>1. PICK t \in KeyTriple : Started(p, t) /\ UNCHANGED kim
    BY <1>2 DEF TpmBegins
  <2> QED BY SMT, <2>1 DEF Started, Begin, LockInv, Types, TpmTypeOK, kim
<1>3. ASSUME NEW p \in Thread, Made(p) PROVE LockInv'
  BY <1>3 DEF Made, LockInv, Types, TpmTypeOK, kim
<1>4. ASSUME NEW p \in Thread, Read(p) PROVE LockInv'
  BY <1>4 DEF Read, LockInv, Types, TpmTypeOK, kim
<1>5. ASSUME NEW p \in Thread, Returned(p) PROVE LockInv'
  <2> SUFFICES ASSUME NEW q \in Thread, q # p, pc[q] \in Locked
               PROVE  /\ esapi_context' = q
                      /\ pc[q] = "attributes" => key_store'[arg[q]] \in {ctx[q], None}
                      /\ pc[q] = "operate" => ctx[q] = attr[q]
    BY SMT, <1>5 DEF Returned, Return, LockInv, Types, TpmTypeOK, Locked
  <2>1. esapi_context = q /\ pc[p] \notin Locked
    BY DEF LockInv, Locked
  <2>2. pc[p] # "insert"
    BY <2>1 DEF Locked
  <2>3. arg[q] \in KeyTriple /\ arg[p] \in KeyTriple
    BY <1>5 DEF Types, Locked, Returned
  <2>4. key_store' = key_store \/ key_store' = [key_store EXCEPT ![arg[p]] = None]
    BY <1>5, <2>2 DEF Returned
  <2> QED BY <1>5, <2>1, <2>3, <2>4 DEF Returned, LockInv, Locked, Types, TpmTypeOK
<1>6. ASSUME NEW p \in Thread, CoreBegins(p) \/ CoreGoesOn(p) PROVE LockInv'
  <2>1. UNCHANGED <<esapi_context, tpm_local>>
    BY <1>6 DEF CoreBegins, CoreGoesOn
  <2>2. \A t \in KeyTriple : key_store'[t] \in {key_store[t], None}
    BY <1>6 DEF CoreBegins, CoreGoesOn, Core!CoreStart, Core!CoreContinue, Core!ListKeys,
       Core!ListClients, Core!DeleteClientList, Core!DeleteClientDestroy, Core!CoreReturn,
       Core!RemoveKeyInfo, Core!kim, Types, TpmTypeOK
  <2> QED BY <2>1, <2>2 DEF LockInv, Types, tpm_local
<1> QED BY <1>1, <1>2, <1>3, <1>4, <1>5, <1>6, Steps DEF TpmGoesOn

(* The keys that delete_client sets out to destroy are those of the client. *)
LEMMA KeysOfTask ==
  ASSUME Types, NEW p \in Thread, Core!CoreContinue(p), task'[p] # None
  PROVE  task'[p].keys \subseteq task[p].keys \cup {t \in KeyTriple : t[1] = task[p].app}
<1> USE Zenon
<1>1. ASSUME NEW todo, NEW keys, NEW result, NEW skipped, Core!Proceed(p, todo, keys, result, skipped)
      PROVE  task'[p].keys = keys
  <2>1. task'[p] = [op |-> task[p].op, app |-> task[p].app, todo |-> todo,
                    keys |-> keys, result |-> result, skipped |-> skipped]
    BY <1>1 DEF Core!Proceed, Types
  <2> QED BY SMT, <2>1
<1>2. ASSUME NEW found, Core!Listed(p, found) \/ Core!SkipProvider(p)
      PROVE  task'[p].keys = {}
  BY <1>1, <1>2 DEF Core!Listed, Core!SkipProvider
<1>3. CASE Core!ListKeys(p) \/ Core!ListClients(p)
  BY <1>2, <1>3 DEF Core!ListKeys, Core!ListClients
<1>4. CASE Core!DeleteClientList(p)
  <2>1. task'[p].keys \in {{}, Core!ProviderListKeys(Core!Current(p), task[p].app)}
    BY <1>1, <1>2, <1>4 DEF Core!DeleteClientList
  <2> QED BY <2>1 DEF Core!ProviderListKeys, Core!Mapped
<1>5. ASSUME NEW t, Core!DeleteClientDestroy(p, t)
      PROVE  task'[p].keys = task[p].keys \ {t}
  BY <1>1, <1>5 DEF Core!DeleteClientDestroy, Core!Destroyed
<1>6. ~Core!CoreReturn(p)
  BY DEF Core!CoreReturn, Types
<1> QED BY <1>3, <1>4, <1>5, <1>6 DEF Core!CoreContinue

(* Who works on which keys. *)
LEMMA OwnKept ==
  ASSUME Types, ServiceInv, OwnInv, Next
  PROVE  OwnInv'
<1> USE Zenon
<1>1. CASE Starting
  <2>1. \A p \in Thread : pc[p] = "idle" /\ task[p] = None
    BY <1>1 DEF Starting, ServiceInv, Idle
  <2> QED BY <1>1, <2>1 DEF Starting, OwnInv, tpm_local, core_vars
<1>2. ASSUME NEW p \in Thread, TpmBegins(p) PROVE OwnInv'
  <2>1. PICK t \in KeyTriple : /\ Started(p, t) /\ who' = [who EXCEPT ![p] = t[1]]
                               /\ UNCHANGED <<task, service>> /\ task[p] = None
    BY <1>2 DEF TpmBegins, Idle
  <2>2. /\ arg'[p] = t /\ who'[p] = t[1]
        /\ \A q \in Thread : q # p => pc'[q] = pc[q] /\ arg'[q] = arg[q] /\ who'[q] = who[q]
    BY SMT, <2>1 DEF Started, Begin, Types, TpmTypeOK
  <2>3. Admins' = Admins
    BY <2>1 DEF Admins
  <2> QED BY SMT, <2>1, <2>2, <2>3 DEF OwnInv
<1>3. ASSUME NEW p \in Thread, TpmGoesOn(p) PROVE OwnInv'
  <2>1. UNCHANGED <<task, service>> /\ task[p] = None
    BY <1>3 DEF TpmGoesOn, Made, Read, Returned, Types
  <2>2. /\ pc'[p] # "idle" => arg'[p] = arg[p] /\ who'[p] = who[p] /\ pc[p] # "idle"
        /\ \A q \in Thread : q # p => pc'[q] = pc[q] /\ arg'[q] = arg[q] /\ who'[q] = who[q]
    BY SMT, <1>3 DEF TpmGoesOn, Made, Read, Returned, Return, Types, TpmTypeOK
  <2>3. Admins' = Admins
    BY ZenonT(30), <2>1 DEF Admins
  <2> QED BY SMT, <2>1, <2>2, <2>3 DEF OwnInv
<1>4. ASSUME NEW p \in Thread, CoreBegins(p) PROVE OwnInv'
  <2>1. PICK o \in {"ListKeys", "ListClients", "DeleteClient"}, app \in App, w \in App :
          /\ Idle(p)
          /\ Core!CoreStart(p, o, app, service.prov_list)
          /\ who' = [who EXCEPT ![p] = w]
          /\ IF o = "ListKeys" THEN w = app ELSE w \in Admins
          /\ UNCHANGED <<tpm_local, service>>
    BY <1>4 DEF CoreBegins
  <2>2. /\ task'[p] = [op |-> o, app |-> app, todo |-> service.prov_list,
                       keys |-> {}, result |-> {}, skipped |-> {}]
        /\ \A q \in Thread : q # p => task'[q] = task[q]
    BY <2>1 DEF Core!CoreStart, Types
  <2>3. task'[p].op = o /\ task'[p].app = app /\ task'[p].keys = {}
    BY SMT, <2>2
  <2>4. /\ pc[p] = "idle" /\ pc' = pc /\ arg' = arg /\ who'[p] = w
        /\ \A q \in Thread : q # p => who'[q] = who[q]
    BY <2>1 DEF Idle, tpm_local, Types
  <2>5. Admins' = Admins
    BY <2>1 DEF Admins
  <2> QED BY SMT, <2>1, <2>2, <2>3, <2>4, <2>5 DEF OwnInv
<1>5. ASSUME NEW p \in Thread, CoreGoesOn(p) PROVE OwnInv'
  <2>1. UNCHANGED <<tpm_local, service>> /\ Core!CoreContinue(p)
        /\ who' = [who EXCEPT ![p] = IF task'[p] = None THEN Missing ELSE @]
    BY <1>5 DEF CoreGoesOn
  <2>2. pc' = pc /\ arg' = arg /\ Admins' = Admins
    BY <2>1 DEF tpm_local, Admins
  <2>3. \A q \in Thread : q # p => who'[q] = who[q]
    BY <2>1 DEF Types
  <2>4. CASE Core!CoreReturn(p)
    <3>1. task'[p] = None /\ task[p] # None /\ \A q \in Thread : q # p => task'[q] = task[q]
      BY <2>4 DEF Core!CoreReturn, Types
    <3>2. pc[p] = "idle"
      BY <3>1 DEF Types
    <3> QED BY SMT, <2>2, <2>3, <3>1, <3>2 DEF OwnInv
  <2>5. ASSUME NEW todo, NEW keys, NEW result, NEW skipped, Loops(p, todo, keys, result, skipped)
        PROVE  OwnInv'
    <3>1. /\ task[p] # None /\ task'[p] \in Core!Task
          /\ task'[p].op = task[p].op /\ task'[p].app = task[p].app /\ task'[p].keys = keys
          /\ \A q \in Thread : q # p => task'[q] = task[q]
      BY SMT, <2>5, LoopsTo
    <3>2. pc[p] = "idle"
      BY <3>1 DEF Types
    <3>4. task'[p] # None /\ who'[p] = who[p]
      BY <2>1, <3>1, NamesAssumption DEF Types
    <3>5. \A t \in keys : t[1] = task[p].app
      <4>1. keys \subseteq task[p].keys \cup {t \in KeyTriple : t[1] = task[p].app}
        BY <2>1, <3>1, <3>4, KeysOfTask
      <4> QED BY <3>1, <4>1 DEF OwnInv
    <3> QED BY SMT, <2>2, <2>3, <3>1, <3>2, <3>4, <3>5 DEF OwnInv
  <2> QED BY <2>1, <2>4, <2>5, CoreSteps
<1> QED BY <1>1, <1>2, <1>3, <1>4, <1>5, Steps

(* A history that is shorter. *)
LEMMA LoopingShrinks ==
  ASSUME NEW k, NEW S, NEW T \in SUBSET S, Looping(k, S)
  PROVE  Looping(k, T)
  BY Zenon DEF Looping

(* What the loop has to show for the provider that it leaves: what it has  *)
(* found there, and what errors have hidden.                               *)
Covers(p, S, found, hidden) ==
  /\ \A t \in S : Concerns(task[p], t) /\ t[2] = Head(task[p].todo) =>
       \/ t \in hidden \cup task[p].skipped
       \/ task[p].op = "ListKeys" /\ t \in found
       \/ task[p].op = "ListClients" /\ t[1] \in found
  /\ task[p].op = "ListKeys" => \A t \in found : t[1] = task[p].app

(* The loop leaves a provider. *)
LEMMA ProviderDone ==
  ASSUME Types, NEW p \in Thread, NEW S, NEW found, NEW hidden,
         Looping(task[p], S), Covers(p, S, found, hidden),
         Loops(p, Tail(task[p].todo), {}, task[p].result \cup found, task[p].skipped \cup hidden)
  PROVE  Looping(task'[p], S)
<1> USE Zenon
<1> DEFINE k == task'[p]
<1>0. /\ k.op = task[p].op /\ k.app = task[p].app /\ k.todo = Tail(task[p].todo) /\ k.keys = {}
      /\ k.result = task[p].result \cup found /\ k.skipped = task[p].skipped \cup hidden
  BY SMT, LoopsTo
<1> HIDE DEF k
<1>1. Elements(task[p].todo) \subseteq {Head(task[p].todo)} \cup Elements(k.todo)
  <2>1. Core!InLoop(p, task[p].op)
    BY DEF Loops
  <2>2. Elements(task[p].todo) \subseteq {Head(task[p].todo)} \cup Elements(Tail(task[p].todo))
    BY <2>1, Rest
  <2> QED BY <1>0, <2>2
<1>2. ASSUME NEW t \in S, Concerns(k, t)
      PROVE  t \in k.skipped \/ t[2] \in Elements(k.todo) \/ Found(k, t)
  <2>1. Concerns(task[p], t)
    BY <1>0, <1>2 DEF Concerns
  <2>2. t \in task[p].skipped \/ t[2] \in Elements(task[p].todo) \/ Found(task[p], t)
    BY <2>1 DEF Looping
  <2>3. CASE t \in task[p].skipped \/ Found(task[p], t)
    BY <1>0, <2>3 DEF Found
  <2>4. CASE t[2] \in Elements(task[p].todo)
    BY <1>0, <1>1, <2>1, <2>4 DEF Found, Covers
  <2> QED BY <2>2, <2>3, <2>4
<1>3. k.op = "ListKeys" => \A t \in k.result : t[1] = k.app
  BY <1>0 DEF Looping, Covers
<1>4. Looping(k, S)
  BY <1>0, <1>2, <1>3 DEF Looping
<1> QED BY <1>4 DEF k

(* A provider that is skipped is covered. *)
LEMMA SkipCovers ==
  ASSUME NEW p \in Thread, NEW S \in SUBSET KeyTriple
  PROVE  Covers(p, S, {}, Core!KeysOf(Head(task[p].todo)))
  BY Zenon DEF Covers, Core!KeysOf

(* The same, for a call that lists. *)
LEMMA ListDone ==
  ASSUME Types, NEW p \in Thread, NEW o, Core!InLoop(p, o), NEW S \in SUBSET KeyTriple,
         NEW found \in SUBSET (KeyTriple \cup App), Covers(p, S, found, {}),
         Core!Listed(p, found) \/ Core!SkipProvider(p),
         Looping(task[p], S)
  PROVE  Looping(task'[p], S)
  BY Zenon, ListStep, ProviderDone, SkipCovers

(* The list of keys to destroy, while the loop is at a provider. *)
LEMMA DeleteKept ==
  ASSUME Types, NEW p \in Thread, Core!InLoop(p, "DeleteClient"), NEW S, NEW k,
         Looping(task[p], S),
         k.op = "DeleteClient", k.app = task[p].app, k.todo = task[p].todo,
         task[p].skipped \subseteq k.skipped,
         \A t \in S : t[1] = k.app /\ t[2] = Head(k.todo) => t \in k.keys \cup k.skipped
  PROVE  Looping(k, S)
<1> USE Zenon
<1>1. task[p].op = "DeleteClient" /\ k.todo # <<>>
  BY Rest
<1>2. \A t \in S : Concerns(k, t) => t \in k.skipped \/ t[2] \in Elements(k.todo)
  BY <1>1 DEF Looping, Concerns, Found
<1> QED BY <1>1, <1>2 DEF Looping

(* A step of the request of thread p itself. *)
LEMMA CoreStepKept ==
  ASSUME Types, CoreInv, NEW p \in Thread, Core!CoreContinue(p), task'[p] # None
  PROVE  Looping(task'[p], stable'[p])
<1> USE Zenon
<1>0. /\ task[p] # None /\ Looping(task[p], stable[p]) /\ task[p].app \in App
      /\ stable[p] \in SUBSET KeyTriple /\ \A t \in stable[p] : key_store[t] # None
  <2>1. task[p] # None
    BY DEF Core!CoreContinue, Core!ListKeys, Core!ListClients, Core!DeleteClientList,
       Core!DeleteClientDestroy, Core!CoreReturn, Core!InLoop
  <2> QED BY <2>1, Fields DEF CoreInv, Types
<1>1. CASE Core!ListKeys(p)
  <2> DEFINE found == Core!ProviderListKeys(Core!Current(p), task[p].app)
  <2>1. /\ Core!InLoop(p, "ListKeys") /\ (Core!Listed(p, found) \/ Core!SkipProvider(p))
        /\ stable' = stable
    BY <1>1 DEF Core!ListKeys
  <2>2. found \in SUBSET (KeyTriple \cup App) /\ \A t \in found : t[1] = task[p].app
    BY DEF Core!ProviderListKeys, Core!Mapped
  <2>3. ASSUME NEW t \in stable[p], Concerns(task[p], t), t[2] = Head(task[p].todo)
        PROVE  t \in found
    <3>1. t[1] = task[p].app
      BY SMT, <2>1, <2>3, Rest DEF Concerns
    <3> QED BY <1>0, <2>3, <3>1 DEF Core!ProviderListKeys, Core!Mapped, Core!Current
  <2> HIDE DEF found
  <2>4. Covers(p, stable[p], found, {})
    <3>1. task[p].op = "ListKeys"
      BY <2>1, Rest
    <3> QED BY <2>2, <2>3, <3>1 DEF Covers
  <2> QED BY <1>0, <2>1, <2>2, <2>4, ListDone
<1>2. CASE Core!ListClients(p)
  <2> DEFINE found == Core!ProviderListClients(Core!Current(p))
  <2>1. /\ Core!InLoop(p, "ListClients") /\ (Core!Listed(p, found) \/ Core!SkipProvider(p))
        /\ stable' = stable
    BY <1>2 DEF Core!ListClients
  <2>2. found \in SUBSET (KeyTriple \cup App)
    BY <1>0, Fields
  <2>3. ASSUME NEW t \in stable[p], t[2] = Head(task[p].todo)
        PROVE  t[1] \in found
    BY <1>0, <2>3 DEF Core!ProviderListClients, Core!Mapped, Core!Current
  <2> HIDE DEF found
  <2>4. Covers(p, stable[p], found, {})
    <3>1. task[p].op = "ListClients"
      BY <2>1, Rest
    <3> QED BY <2>3, <3>1 DEF Covers
  <2> QED BY <1>0, <2>1, <2>2, <2>4, ListDone
<1>3. CASE Core!DeleteClientList(p)
  <2> DEFINE keys == Core!ProviderListKeys(Core!Current(p), task[p].app)
  <2>1. /\ Core!InLoop(p, "DeleteClient") /\ stable' = stable
        /\ \/ keys = {} /\ (Core!Listed(p, {}) \/ Core!SkipProvider(p))
           \/ Core!SkipProvider(p)
           \/ Core!Proceed(p, task[p].todo, keys, task[p].result, task[p].skipped)
    BY <1>3 DEF Core!DeleteClientList
  <2>2. task[p].op = "DeleteClient" /\ keys \in SUBSET KeyTriple
    BY <2>1, Rest, Fields
  <2>3. ASSUME NEW t \in stable[p], t[1] = task[p].app, t[2] = Head(task[p].todo)
        PROVE  t \in keys
    BY <1>0, <2>3 DEF Core!ProviderListKeys, Core!Mapped, Core!Current
  <2> HIDE DEF keys
  <2>4. CASE keys = {} /\ (Core!Listed(p, {}) \/ Core!SkipProvider(p))
    <3>1. Covers(p, stable[p], {}, {})
      BY <2>2, <2>3, <2>4 DEF Concerns, Covers
    <3>2. {} \in SUBSET (KeyTriple \cup App)
      OBVIOUS
    <3> QED BY <1>0, <2>1, <2>4, <3>1, <3>2, ListDone
  <2>5. CASE Core!SkipProvider(p)
    <3>1. Loops(p, Tail(task[p].todo), {}, task[p].result \cup {},
                task[p].skipped \cup Core!KeysOf(Head(task[p].todo)))
      <4>1. task[p].result \cup {} = task[p].result
        OBVIOUS
      <4> QED BY <1>0, <2>1, <2>2, <2>5, <4>1, Rest, Fields DEF Loops, Core!SkipProvider, Core!Current
    <3> QED BY <1>0, <2>1, <3>1, SkipCovers, ProviderDone
  <2>6. CASE Core!Proceed(p, task[p].todo, keys, task[p].result, task[p].skipped)
    <3>1. Loops(p, task[p].todo, keys, task[p].result, task[p].skipped)
      BY <1>0, <2>1, <2>2, <2>6, Fields DEF Loops
    <3>2. /\ task'[p].op = "DeleteClient" /\ task'[p].app = task[p].app
          /\ task'[p].todo = task[p].todo /\ task'[p].keys = keys
          /\ task'[p].skipped = task[p].skipped
      BY SMT, <2>2, <3>1, LoopsTo
    <3>3. \A t \in stable[p] : t[1] = task'[p].app /\ t[2] = Head(task'[p].todo) =>
             t \in task'[p].keys \cup task'[p].skipped
      BY <2>3, <3>2
    <3> QED BY <1>0, <2>1, <3>2, <3>3, DeleteKept
  <2> QED BY <2>1, <2>4, <2>5, <2>6
<1>4. ASSUME NEW t \in KeyTriple, Core!DeleteClientDestroy(p, t)
      PROVE  Looping(task'[p], stable'[p])
  <2>1. /\ Core!InLoop(p, "DeleteClient") /\ t \in task[p].keys
        /\ stable' = [q \in Thread |-> {u \in stable[q] : key_store'[u] # None}]
    BY <1>4 DEF Core!DeleteClientDestroy, Core!UpdateStable
  <2>2. task[p].op = "DeleteClient" /\ task[p].todo # <<>>
    BY <2>1, Rest
  <2>3. PICK failed \in SUBSET {t} : Core!Destroyed(p, t, failed) /\ (t \in failed \/ t \notin stable'[p])
    <3>1. CASE RemoveKeyInfo(t) /\ Core!Destroyed(p, t, {})
      <4>1. key_store'[t] = None
        BY <3>1 DEF RemoveKeyInfo, Types, TpmTypeOK
      <4> QED BY <2>1, <3>1, <4>1
    <3>2. CASE key_store[t] = None /\ Core!Destroyed(p, t, {})
      <4>1. t \notin stable[p]
        BY <1>0, <3>2
      <4> QED BY <2>1, <3>2, <4>1
    <3>3. CASE Core!Destroyed(p, t, {t})
      BY <3>3
    <3> QED BY <1>4, <3>1, <3>2, <3>3 DEF Core!DeleteClientDestroy, Core!RemoveKeyInfo, RemoveKeyInfo,
            Core!DoesNotExist
  <2>4. stable'[p] \in SUBSET stable[p]
    BY <2>1
  <2>5. Looping(task[p], stable'[p])
    BY <1>0, <2>4, LoopingShrinks
  <2>6. \A u \in stable'[p] : u[1] = task[p].app /\ u[2] = Head(task[p].todo) =>
          u \in (task[p].keys \ {t}) \cup task[p].skipped \cup failed
    BY <2>1, <2>3, <2>5 DEF Looping
  <2>7. failed \in SUBSET KeyTriple
    BY <2>3
  <2>8. CASE task[p].keys = {t}
    <3>1. Loops(p, Tail(task[p].todo), {}, task[p].result \cup {}, task[p].skipped \cup failed)
      <4>1. Core!Proceed(p, Tail(task[p].todo), {}, task[p].result \cup {}, task[p].skipped \cup failed)
        <5>1. task[p].keys \ {t} = {} /\ task[p].result \cup {} = task[p].result
          BY <2>8
        <5> QED BY <2>3, <2>8, <5>1 DEF Core!Destroyed
      <4> QED BY <1>0, <2>1, <2>2, <2>7, <4>1, Rest, Fields DEF Loops
    <3>2. Covers(p, stable'[p], {}, failed)
      BY <2>2, <2>6, <2>8 DEF Concerns, Covers
    <3> QED BY <2>5, <3>1, <3>2, ProviderDone
  <2>9. CASE task[p].keys # {t}
    <3>1. Loops(p, task[p].todo, task[p].keys \ {t}, task[p].result, task[p].skipped \cup failed)
      BY <1>0, <2>1, <2>2, <2>3, <2>7, <2>9, Fields DEF Loops, Core!Destroyed
    <3>2. /\ task'[p].op = "DeleteClient" /\ task'[p].app = task[p].app
          /\ task'[p].todo = task[p].todo /\ task'[p].keys = task[p].keys \ {t}
          /\ task'[p].skipped = task[p].skipped \cup failed
      BY SMT, <2>2, <3>1, LoopsTo
    <3>3. \A u \in stable'[p] : u[1] = task'[p].app /\ u[2] = Head(task'[p].todo) =>
             u \in task'[p].keys \cup task'[p].skipped
      BY <2>6, <3>2
    <3> QED BY <2>1, <2>5, <3>2, <3>3, DeleteKept
  <2> QED BY <2>8, <2>9
<1>5. ~Core!CoreReturn(p)
  BY DEF Core!CoreReturn, Types
<1> QED BY <1>1, <1>2, <1>3, <1>4, <1>5 DEF Core!CoreContinue

(* What the loops of the core provider have done. *)
LEMMA CoreKept ==
  ASSUME Types, ServiceInv, CoreInv, Next
  PROVE  CoreInv'
<1> USE Zenon
<1>1. CASE Starting
  BY <1>1 DEF Starting, CoreInv, core_vars
<1>2. ASSUME NEW p \in Thread, TpmBegins(p) \/ TpmGoesOn(p) PROVE CoreInv'
  <2>1. task' = task /\ stable' = [q \in Thread |-> {t \in stable[q] : key_store'[t] # None}]
    BY <1>2 DEF TpmBegins, TpmGoesOn, Core!UpdateStable
  <2> SUFFICES ASSUME NEW q \in Thread
               PROVE  /\ \A t \in stable'[q] : key_store'[t] # None
                      /\ task'[q] # None => Looping(task'[q], stable'[q])
    BY DEF CoreInv, Looping, Concerns, Found
  <2>2. stable'[q] \in SUBSET stable[q] /\ \A t \in stable'[q] : key_store'[t] # None
    BY <2>1
  <2>3. task[q] # None => Looping(task[q], stable'[q])
    BY <2>2, LoopingShrinks DEF CoreInv
  <2> QED BY <2>1, <2>2, <2>3
<1>3. ASSUME NEW p \in Thread, CoreBegins(p) PROVE CoreInv'
  <2>1. PICK o, app : Core!CoreStart(p, o, app, service.prov_list)
    BY <1>3 DEF CoreBegins
  <2> DEFINE ps == service.prov_list
  <2>2. /\ task' = [task EXCEPT ![p] = [op |-> o, app |-> app, todo |-> ps,
                                       keys |-> {}, result |-> {}, skipped |-> {}]]
        /\ stable' = [stable EXCEPT ![p] = {t \in Core!Mapped : \E i \in DOMAIN ps : ps[i] = t[2]}]
        /\ key_store' = key_store
    BY <2>1 DEF Core!CoreStart, Core!kim
  <2> HIDE DEF ps
  <2> SUFFICES ASSUME NEW q \in Thread
               PROVE  /\ \A t \in stable'[q] : key_store[t] # None
                      /\ task'[q] # None => Looping(task'[q], stable'[q])
    BY SMT, <2>2 DEF CoreInv, Looping, Concerns, Found
  <2>3. CASE q # p
    <3>1. task'[q] = task[q] /\ stable'[q] = stable[q]
      BY <2>2, <2>3 DEF Types
    <3> QED BY <3>1 DEF CoreInv
  <2>4. CASE q = p
    <3>1. /\ task'[p] = [op |-> o, app |-> app, todo |-> ps,
                         keys |-> {}, result |-> {}, skipped |-> {}]
          /\ stable'[p] = {t \in Core!Mapped : \E i \in DOMAIN ps : ps[i] = t[2]}
      BY <2>2 DEF Types
    <3>2. task'[p].todo = ps /\ task'[p].keys = {} /\ task'[p].result = {}
      BY SMT, <3>1
    <3>3. \A t \in stable'[p] : t[2] \in Elements(ps) /\ key_store[t] # None
      BY <3>1 DEF Elements, Core!Mapped
    <3>4. Looping(task'[p], stable'[p])
      BY <3>2, <3>3 DEF Looping
    <3> QED BY <2>4, <3>3, <3>4
  <2> QED BY <2>3, <2>4
<1>4. ASSUME NEW p \in Thread, CoreGoesOn(p) PROVE CoreInv'
  <2>1. Core!CoreContinue(p)
    BY <1>4 DEF CoreGoesOn
  <2>2. \A q \in Thread : q # p => task'[q] = task[q]
    <3>1. CASE Core!CoreReturn(p)
      BY <3>1 DEF Core!CoreReturn, Types
    <3>2. ASSUME NEW todo, NEW keys, NEW result, NEW skipped, Loops(p, todo, keys, result, skipped)
          PROVE  \A q \in Thread : q # p => task'[q] = task[q]
      BY ZenonT(30), <3>2, LoopsTo
    <3> QED BY <2>1, <3>1, <3>2, CoreSteps
  <2>3. \A q \in Thread : /\ stable'[q] \in SUBSET stable[q]
                          /\ \A t \in stable'[q] : key_store'[t] # None
    <3>1. CASE \E t \in KeyTriple : Core!DeleteClientDestroy(p, t)
      BY SMT, <3>1 DEF Core!DeleteClientDestroy, Core!UpdateStable
    <3>2. CASE /\ key_store' = key_store
               /\ stable' = stable \/ stable' = [stable EXCEPT ![p] = {}]
      BY <3>2 DEF CoreInv, Types
    <3> QED BY <2>1, <3>1, <3>2 DEF Core!CoreContinue, Core!ListKeys, Core!ListClients,
            Core!DeleteClientList, Core!CoreReturn, Core!kim
  <2> SUFFICES ASSUME NEW q \in Thread, task'[q] # None PROVE Looping(task'[q], stable'[q])
    BY <2>3 DEF CoreInv, Looping, Concerns, Found
  <2>4. CASE q = p
    BY <2>1, <2>4, CoreStepKept
  <2>5. CASE q # p
    <3>1. task'[q] = task[q] /\ Looping(task[q], stable[q])
      BY <2>2, <2>5 DEF CoreInv
    <3> QED BY <2>3, <3>1, LoopingShrinks
  <2> QED BY <2>4, <2>5
<1> QED BY <1>1, <1>2, <1>3, <1>4, Steps

-----------------------------------------------------------------------------
(* The theorems *)

Inv == Types /\ ServiceInv /\ LockInv /\ OwnInv /\ CoreInv

(* The inductive invariant holds in every state. *)
THEOREM Invariance == Spec => []Inv
<1> USE Zenon
<1>1. Init => Inv
  <2> SUFFICES ASSUME Init PROVE Inv
    OBVIOUS
  <2>1. Types
    BY InitTypes
  <2>2. \A p \in Thread : pc[p] = "idle" /\ task[p] = None /\ stable[p] = {}
    BY DEF Init, TpmInit, Core!CoreInit
  <2>3. ServiceInv
    BY <2>2 DEF Init, ServiceInv, Idle
  <2> QED BY <2>1, <2>2, <2>3 DEF Inv, LockInv, OwnInv, CoreInv
<1>2. Inv /\ [Next]_vars => Inv'
  <2> SUFFICES ASSUME Inv, [Next]_vars PROVE Inv'
    OBVIOUS
  <2>1. CASE Next
    BY <2>1, TypesKept, ServiceKept, LockKept, OwnKept, CoreKept DEF Inv
  <2>2. CASE UNCHANGED vars
    <3> USE <2>2 DEF vars, tpm_vars, kim, tpm_local, core_vars, Inv
    <3>1. Types'
      BY DEF Types, TpmTypeOK
    <3>2. ServiceInv'
      BY DEF ServiceInv, Idle
    <3>3. LockInv'
      BY ZenonT(30) DEF LockInv
    <3>4. OwnInv'
      <4>1. /\ OwnInv /\ Admins' = Admins
            /\ pc' = pc /\ arg' = arg /\ who' = who /\ task' = task
        BY DEF Admins
      <4> QED BY ONLY <4>1, Zenon DEF OwnInv
    <3>5. CoreInv'
      BY SMT DEF CoreInv, Looping, Concerns, Found
    <3> QED BY <3>1, <3>2, <3>3, <3>4, <3>5
  <2> QED BY <2>1, <2>2
<1> QED BY <1>1, <1>2, PTL DEF Spec

(* The variables have their types, a service is there exactly from the     *)
(* time it is built, with at least one provider, and a thread executes one *)
(* request at a time.                                                      *)
THEOREM TypeCorrect == Spec => []TypeOK
<1> USE Zenon
<1>1. ASSUME Inv PROVE TypeOK
  <2>1. phase \in {"built", "listening"} => service.prov_list # <<>>
    BY <1>1, ProviderList DEF Inv
  <2> QED BY <1>1, <2>1 DEF Inv, Types, ServiceInv, TypeOK
<1> QED BY <1>1, Invariance, PTL

(* The service that has been built is that of a configuration. *)
LEMMA ServiceBuilt ==
  ASSUME Inv, phase = "built"
  PROVE  \E c \in ServiceConfig : BuildService(c) # Missing /\ service = BuildService(c)
  BY Zenon, InputsAssumption DEF Inv, ServiceInv

(* Exactly the requests that the wire protocol entitles are executed, in   *)
(* the service of any configuration (front_end.rs, dispatcher.rs,          *)
(* backend_handler.rs and the authenticators taken together).              *)
THEOREM Decisions == Spec => []RequestsDecided
<1> USE Zenon
<1>1. ASSUME Inv PROVE RequestsDecided
  <2> SUFFICES ASSUME phase = "built", NEW r \in Request
               PROVE  /\ HandleRequest(service, r) = "Execute" <=> Entitled(r)
                      /\ HandleRequest(service, r) # "WrongProviderId"
    BY DEF RequestsDecided
  <2> QED BY <1>1, ServiceBuilt, Decided
<1> QED BY <1>1, Invariance, PTL

(* What ListProviders and ListOpcodes name is there and serves requests,   *)
(* in the service of any configuration.                                    *)
THEOREM ListedServe == Spec => []ListedProvidersServe
<1> USE Zenon
<1>1. ASSUME Inv PROVE ListedProvidersServe
  <2> SUFFICES ASSUME phase = "built" PROVE ListedProvidersServe
    BY DEF ListedProvidersServe
  <2>1. PICK c \in ServiceConfig : BuildService(c) # Missing /\ service = BuildService(c)
    BY <1>1, ServiceBuilt
  <2> QED BY <2>1, Listed DEF ListedProvidersServe
<1> QED BY <1>1, Invariance, PTL

(* A TPM provider that is skipped is as if absent, for any list of         *)
(* providers, and no provider is left out otherwise (service_builder.rs).  *)
THEOREM SkippedAbsent == Spec => []SkippedAsIfAbsent
<1> USE Zenon
<1>1. SkippedAsIfAbsent
  BY Skipped, InputsAssumption DEF SkippedAsIfAbsent
<1> QED BY <1>1, PTL

(* The attributes that an operation of the TPM provider validates are      *)
(* those of the key context that it loads, whatever other threads do       *)
(* between the two reads of the mapping.                                   *)
THEOREM ContextsMatch == Spec => []ContextMatchesAttributes
<1> USE Zenon
<1>1. ASSUME Inv PROVE ContextMatchesAttributes
  BY <1>1 DEF Inv, LockInv, ContextMatchesAttributes
<1> QED BY <1>1, Invariance, PTL

(* delete_client of the core provider leaves no key of the client that was *)
(* there all the time, except where a call of a provider failed.           *)
THEOREM Deleted == Spec => []DeletedClientHasNoKeys
<1> USE Zenon
<1>1. ASSUME Inv PROVE DeletedClientHasNoKeys
  <2> SUFFICES ASSUME NEW p \in Thread, Core!Finished(p, "DeleteClient"),
                      NEW t \in stable[p], t[1] = task[p].app
               PROVE  t \in task[p].skipped
    BY DEF DeletedClientHasNoKeys, Core!DeletedClientHasNoKeys
  <2>1. task[p] # None /\ task[p].op = "DeleteClient" /\ task[p].todo = <<>>
    BY DEF Core!Finished
  <2>2. Looping(task[p], stable[p])
    BY <1>1, <2>1 DEF Inv, CoreInv
  <2>3. Elements(<<>>) = {}
    BY SMT DEF Elements
  <2> QED BY <2>1, <2>2, <2>3 DEF Looping, Concerns, Found
<1> QED BY <1>1, Invariance, PTL

(* list_keys and list_clients of the core provider miss nothing that was   *)
(* there all the time, except where a call of a provider failed, and       *)
(* list_keys shows keys only to the application they belong to, and        *)
(* list_clients the clients only to admins.                                *)
THEOREM ListsComplete == Spec => []ListsAreComplete
<1> USE Zenon
<1>1. ASSUME Inv PROVE ListsAreComplete
  <2> SUFFICES ASSUME NEW p \in Thread, NEW o \in {"ListKeys", "ListClients"}, Core!Finished(p, o)
               PROVE  /\ o = "ListKeys" =>
                           /\ \A t \in stable[p] : t[1] = task[p].app =>
                                t \in task[p].result \/ t \in task[p].skipped
                           /\ \A t \in task[p].result : t[1] = task[p].app /\ t[1] = who[p]
                      /\ o = "ListClients" =>
                           /\ \A t \in stable[p] : t[1] \in task[p].result \/ t \in task[p].skipped
                           /\ who[p] \in Admins
    BY DEF ListsAreComplete, Core!ListsAreComplete
  <2>1. task[p] # None /\ task[p].op = o /\ task[p].todo = <<>>
    BY DEF Core!Finished
  <2>2. Looping(task[p], stable[p])
    BY <1>1, <2>1 DEF Inv, CoreInv
  <2>3. Elements(<<>>) = {}
    BY SMT DEF Elements
  <2>4. IF o = "ListKeys" THEN who[p] = task[p].app ELSE who[p] \in Admins
    BY <1>1, <2>1 DEF Inv, OwnInv
  <2> QED BY <2>1, <2>2, <2>3, <2>4 DEF Looping, Concerns, Found
<1> QED BY <1>1, Invariance, PTL

(* A key is created, replaced or removed only by a request of the          *)
(* application that it belongs to, or by an admin's DeleteClient.          *)
THEOREM OwnersOnly == Spec => OnlyOwnersAndAdmins
<1> USE Zenon
<1> DEFINE Allowed(t, p) ==
             \/ arg[p] = t /\ who[p] = t[1]
             \/ /\ task[p] # None /\ task[p].op = "DeleteClient" /\ task[p].app = t[1]
                /\ who[p] \in Admins
           Step == \A t \in KeyTriple : key_store'[t] # key_store[t] => \E p \in Thread : Allowed(t, p)
<1>1. ASSUME Inv, Next PROVE Step
  <2> SUFFICES ASSUME NEW t \in KeyTriple, key_store'[t] # key_store[t]
               PROVE  \E p \in Thread : Allowed(t, p)
    OBVIOUS
  <2>0. ~Starting
    BY DEF Starting
  <2>1. ASSUME NEW p \in Thread, TpmBegins(p) \/ CoreBegins(p) PROVE FALSE
    BY <2>1 DEF TpmBegins, CoreBegins, Core!CoreStart, kim, Core!kim
  <2>2. ASSUME NEW p \in Thread, TpmGoesOn(p) PROVE Allowed(t, p)
    <3>1. Returned(p) /\ arg[p] = t
      BY <1>1, <2>2 DEF TpmGoesOn, Made, Read, Returned, kim, Inv, Types, TpmTypeOK
    <3>2. pc[p] # "idle"
      BY <3>1 DEF Returned
    <3> QED BY <1>1, <3>1, <3>2 DEF Inv, OwnInv
  <2>3. ASSUME NEW p \in Thread, CoreGoesOn(p) PROVE Allowed(t, p)
    <3>1. PICK u \in KeyTriple : Core!DeleteClientDestroy(p, u)
      BY <2>3 DEF CoreGoesOn, Core!CoreContinue, Core!ListKeys, Core!ListClients,
         Core!DeleteClientList, Core!CoreReturn, Core!kim
    <3>2. u = t
      BY <1>1, <3>1 DEF Core!DeleteClientDestroy, Core!RemoveKeyInfo, Core!kim, Inv, Types, TpmTypeOK
    <3>3. /\ t \in task[p].keys /\ task[p] # None /\ task[p].op = "DeleteClient"
      BY <3>1, <3>2 DEF Core!DeleteClientDestroy, Core!InLoop
    <3> QED BY <1>1, <3>3 DEF Inv, OwnInv
  <2> QED BY SMT, <1>1, <2>0, <2>1, <2>2, <2>3, Steps DEF Inv
<1>2. Inv /\ [Next]_vars => [Step]_vars
  BY <1>1
<1> HIDE DEF Step
<1>3. Spec => [][Step]_vars
  BY <1>2, Invariance, PTL DEF Spec
<1> QED BY <1>3 DEF Step, OnlyOwnersAndAdmins
=============================================================================
