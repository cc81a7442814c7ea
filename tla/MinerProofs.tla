---------------------------- MODULE MinerProofs ----------------------------
(* What a miner adds for a transaction (MinerTx), and what a refresh does   *)
(* with the whitelist (Whitelist): theorems about the two.                  *)
EXTENDS MinerTx, Whitelist, SequenceTheorems, WellFoundedInduction, TLAPS

-----------------------------------------------------------------------------
(* The documents of a transaction.                                          *)

(* Two sequences of documents, one after the other.                         *)
LEMMA Joined ==
    ASSUME NEW s \in Seq(Docs), NEW u \in Seq(Docs)
    PROVE  /\ s \o u \in Seq(Docs)
           /\ Len(s) \in Nat /\ Len(u) \in Nat
           /\ DOMAIN s = 1..Len(s) /\ DOMAIN u = 1..Len(u)
           /\ DOMAIN (s \o u) = 1..(Len(s) + Len(u))
           /\ Len(s \o u) = Len(s) + Len(u)
           /\ \A i \in 1..Len(s) : (s \o u)[i] = s[i]
           /\ \A i \in 1..Len(u) : (s \o u)[Len(s) + i] = u[i]
<1>1. Len(s) \in Nat /\ Len(u) \in Nat
  OBVIOUS
<1>2. \A i \in 1..(Len(s) + Len(u)) :
          (s \o u)[i] = IF i <= Len(s) THEN s[i] ELSE u[i - Len(s)]
  BY ConcatProperties
<1>3. \A i \in 1..Len(s) : (s \o u)[i] = s[i]
  BY <1>1, <1>2
<1>4. ASSUME NEW i \in 1..Len(u) PROVE (s \o u)[Len(s) + i] = u[i]
  <2>1. Len(s) + i \in 1..(Len(s) + Len(u)) /\ ~(Len(s) + i <= Len(s)) /\ Len(s) + i - Len(s) = i
    BY <1>1
  <2> QED
    BY <1>2, <2>1
<1> QED
  BY <1>1, <1>3, <1>4, ConcatProperties

\* Where a sequence of documents has d, or an account token.
Has(s, d) == \E j \in DOMAIN s : s[j] = d
HasId(s, id) == \E j \in DOMAIN s : s[j].kind = "account_tokens" /\ Id(s[j]) = id

\* An account named by a transfer is written after it, or the cache C has it.
Complete(s, C) ==
    \A i \in DOMAIN s :
        s[i].kind = "token_transfer" =>
            \A a \in {s[i].from, s[i].to} \cap Accounts :
                \/ \E j \in DOMAIN s :
                      j > i /\ s[j] = AccountTokens(s[i].contract, a, s[i].type)
                \/ <<s[i].contract, a>> \in C
NoTx(s) == \A i \in DOMAIN s : s[i].kind # "tx"

\* What is added before the document of the transaction.
Parts(s, C) == s \in Seq(Docs) /\ NoTx(s) /\ Complete(s, C)

(* An index of a joined sequence belongs to one of its parts.               *)
LEMMA JoinedIndex ==
    ASSUME NEW s \in Seq(Docs), NEW u \in Seq(Docs), NEW i \in DOMAIN (s \o u)
    PROVE  \/ i \in DOMAIN s /\ (s \o u)[i] = s[i]
           \/ \E m \in DOMAIN u : i = Len(s) + m /\ (s \o u)[i] = u[m]
<1>1. i \in 1..(Len(s) + Len(u)) /\ Len(s) \in Nat /\ Len(u) \in Nat
  BY Joined
<1>2. CASE i <= Len(s)
  <2>1. i \in 1..Len(s)
    BY <1>1, <1>2
  <2> QED
    BY <2>1, Joined
<1>3. CASE ~(i <= Len(s))
  <2>1. i - Len(s) \in 1..Len(u) /\ i = Len(s) + (i - Len(s))
    BY <1>1, <1>3
  <2> QED
    BY <2>1, Joined
<1> QED
  BY <1>2, <1>3

LEMMA HasJoined ==
    ASSUME NEW s \in Seq(Docs), NEW u \in Seq(Docs), NEW d, Has(s, d) \/ Has(u, d)
    PROVE  Has(s \o u, d)
<1>1. ASSUME NEW j \in DOMAIN s, s[j] = d PROVE Has(s \o u, d)
  <2>1. j \in DOMAIN (s \o u) /\ (s \o u)[j] = d
    BY <1>1, Joined
  <2> QED
    BY <2>1 DEF Has
<1>2. ASSUME NEW j \in DOMAIN u, u[j] = d PROVE Has(s \o u, d)
  <2>1. Len(s) + j \in DOMAIN (s \o u) /\ (s \o u)[Len(s) + j] = d
    BY <1>2, Joined
  <2> QED
    BY <2>1 DEF Has
<1> QED
  BY <1>1, <1>2 DEF Has

LEMMA HasIdJoined ==
    ASSUME NEW s \in Seq(Docs), NEW u \in Seq(Docs), NEW id, HasId(s, id) \/ HasId(u, id)
    PROVE  HasId(s \o u, id)
<1>1. PICK d : (Has(s, d) \/ Has(u, d)) /\ d.kind = "account_tokens" /\ Id(d) = id
  BY DEF Has, HasId
<1>2. Has(s \o u, d)
  BY <1>1, HasJoined
<1> QED
  BY <1>1, <1>2 DEF Has, HasId

LEMMA NoneJoined ==
    ASSUME NEW s \in Seq(Docs), NEW u \in Seq(Docs)
    PROVE  NoTx(s) /\ NoTx(u) => NoTx(s \o u)
BY JoinedIndex DEF NoTx

LEMMA CompleteJoined ==
    ASSUME NEW s \in Seq(Docs), NEW u \in Seq(Docs), NEW C, NEW D, C \subseteq D,
           Complete(s, C), Complete(u, D)
    PROVE  Complete(s \o u, D)
<1> DEFINE w == s \o u
<1> SUFFICES ASSUME NEW i \in DOMAIN w, w[i].kind = "token_transfer",
                    NEW a \in {w[i].from, w[i].to} \cap Accounts,
                    <<w[i].contract, a>> \notin D
             PROVE  \E j \in DOMAIN w : j > i /\ w[j] = AccountTokens(w[i].contract, a, w[i].type)
  BY DEF Complete
<1>1. CASE i \in DOMAIN s /\ w[i] = s[i]
  <2>1. PICK j \in DOMAIN s : j > i /\ s[j] = AccountTokens(w[i].contract, a, w[i].type)
    BY <1>1 DEF Complete
  <2>2. j \in DOMAIN w /\ w[j] = s[j]
    BY Joined
  <2> QED
    BY <2>1, <2>2
<1>2. ASSUME NEW m \in DOMAIN u, i = Len(s) + m /\ w[i] = u[m]
      PROVE  \E j \in DOMAIN w : j > i /\ w[j] = AccountTokens(w[i].contract, a, w[i].type)
  <2>1. PICK j \in DOMAIN u : j > m /\ u[j] = AccountTokens(w[i].contract, a, w[i].type)
    BY <1>2 DEF Complete
  <2>2. Len(s) + j \in DOMAIN w /\ w[Len(s) + j] = u[j]
    BY Joined
  <2>3. Len(s) + j > i
    <3>1. Len(s) \in Nat /\ m \in Nat /\ j \in Nat
      BY Joined
    <3> QED
      BY <1>2, <2>1, <3>1
  <2> QED
    BY <2>1, <2>2, <2>3
<1> QED
  BY <1>1, <1>2, JoinedIndex

LEMMA PartsJoined ==
    ASSUME NEW s, NEW u, NEW C, NEW D, C \subseteq D, Parts(s, C), Parts(u, D)
    PROVE  Parts(s \o u, D)
BY Joined, NoneJoined, CompleteJoined DEF Parts

LEMMA OneDoc ==
    ASSUME NEW d \in Docs
    PROVE  /\ <<d>> \in Seq(Docs) /\ Len(<<d>>) = 1
           /\ DOMAIN <<d>> = {1} /\ <<d>>[1] = d
OBVIOUS

LEMMA OnePart ==
    ASSUME NEW d \in Docs, d.kind # "tx", d.kind # "token_transfer", NEW C
    PROVE  Parts(<<d>>, C)
BY OneDoc DEF Parts, NoTx, Complete

LEMMA NoPart == \A C : Parts(<<>>, C)
BY DEF Parts, NoTx, Complete

(* A transfer followed by the balances of all its accounts.                 *)
LEMMA TransferPart ==
    ASSUME NEW d \in Docs, d.kind = "token_transfer",
           NEW u, NEW C, Parts(u, C),
           \A a \in {d.from, d.to} \cap Accounts :
              Has(u, AccountTokens(d.contract, a, d.type)) \/ <<d.contract, a>> \in C
    PROVE  Parts(<<d>> \o u, C)
<1> DEFINE w == <<d>> \o u
<1>0. <<d>> \in Seq(Docs) /\ u \in Seq(Docs) /\ Complete(u, C) /\ NoTx(<<d>>) /\ NoTx(u)
  BY OneDoc DEF Parts, NoTx
<1>1. w \in Seq(Docs) /\ NoTx(w)
  BY <1>0, Joined, NoneJoined
<1>2. ASSUME NEW i \in DOMAIN w, w[i].kind = "token_transfer",
             NEW a \in {w[i].from, w[i].to} \cap Accounts,
             <<w[i].contract, a>> \notin C
      PROVE  \E j \in DOMAIN w : j > i /\ w[j] = AccountTokens(w[i].contract, a, w[i].type)
  <2>0. Len(<<d>>) = 1 /\ DOMAIN <<d>> = {1} /\ <<d>>[1] = d
    BY OneDoc
  <2>1. CASE i \in DOMAIN <<d>> /\ w[i] = <<d>>[i]
    <3>1. i = 1 /\ w[i] = d
      BY <2>0, <2>1
    <3>2. PICK j \in DOMAIN u : u[j] = AccountTokens(d.contract, a, d.type)
      BY <1>2, <3>1 DEF Has
    <3>3. j \in Nat /\ j >= 1 /\ 1 + j \in DOMAIN w /\ w[1 + j] = u[j]
      BY <1>0, <2>0, Joined
    <3>4. 1 + j > i
      BY <3>1, <3>3
    <3> QED
      BY <3>1, <3>2, <3>3, <3>4
  <2>2. ASSUME NEW m \in DOMAIN u, i = Len(<<d>>) + m /\ w[i] = u[m]
        PROVE  \E j \in DOMAIN w : j > i /\ w[j] = AccountTokens(w[i].contract, a, w[i].type)
    <3>1. PICK j \in DOMAIN u : j > m /\ u[j] = AccountTokens(w[i].contract, a, w[i].type)
      BY <1>0, <1>2, <2>2 DEF Complete
    <3>2. j \in Nat /\ m \in Nat /\ 1 + j \in DOMAIN w /\ w[1 + j] = u[j]
      BY <1>0, <2>0, Joined
    <3>3. 1 + j > i
      BY <2>0, <2>2, <3>1, <3>2
    <3> QED
      BY <3>1, <3>2, <3>3
  <2> QED
    BY <1>0, <2>1, <2>2, JoinedIndex
<1> QED
  BY <1>1, <1>2 DEF Parts, Complete

(* The documents of the transaction itself.                                 *)
LEMMA PlainDoc ==
    ASSUME NEW kind \in DocKinds, NEW c \in Accounts \cup {None}
    PROVE  Plain(kind, c) \in Docs /\ Plain(kind, c).kind = kind /\ Plain(kind, c).contract = c
BY DEF Plain, Doc, Docs, Parties

LEMMA AccountDoc ==
    ASSUME NEW c \in Accounts, NEW a \in Parties, NEW type \in Standards
    PROVE  /\ AccountTokens(c, a, type) \in Docs
           /\ AccountTokens(c, a, type).kind = "account_tokens"
<1>1. None \in Parties /\ "account_tokens" \in DocKinds
  BY DEF Parties, DocKinds
<1> QED
  BY <1>1 DEF AccountTokens, Doc, Docs

(* UnmarshalEvent yields accounts, or the words in their place.             *)
LEMMA EventParties ==
    ASSUME NEW name \in {"mint", "transfer", "burn"}, NEW args,
           UnmarshalEvent(name, args) # Failed
    PROVE  /\ UnmarshalEvent(name, args).from \in Parties
           /\ UnmarshalEvent(name, args).to \in Parties
           /\ name = "mint" => UnmarshalEvent(name, args).from = "MINT"
           /\ name = "burn" => UnmarshalEvent(name, args).to = "BURN"
<1> DEFINE as == DropNull(args)
           n == IF name = "transfer" THEN 3 ELSE 2
<1>1. /\ \A i \in 1..(n - 1) : as[i] \in Strings
      /\ UnmarshalEvent(name, args) =
            [from |-> CASE name = "mint" -> "MINT"
                        [] name = "transfer" -> Account(as[1], "MINT")
                        [] name = "burn" -> as[1],
             to |-> CASE name = "mint" -> as[1]
                      [] name = "transfer" -> Account(as[2], "BURN")
                      [] name = "burn" -> "BURN",
             amountOrId |-> ParseAmountOrId(as[n])]
  BY DEF UnmarshalEvent
<1>2. as[1] \in Strings
  BY <1>1
<1>3. name = "transfer" => as[2] \in Strings
  BY <1>1
<1> DEFINE r == UnmarshalEvent(name, args)
<1>10. /\ r.from = (CASE name = "mint" -> "MINT"
                     [] name = "transfer" -> Account(as[1], "MINT")
                     [] name = "burn" -> as[1])
       /\ r.to = (CASE name = "mint" -> as[1]
                   [] name = "transfer" -> Account(as[2], "BURN")
                   [] name = "burn" -> "BURN")
  BY <1>1
<1> HIDE DEF as, n, r
<1>4. \A v \in Strings : Account(v, "MINT") \in Parties /\ Account(v, "BURN") \in Parties
  BY DEF Account, Parties
<1>5. Strings \subseteq Parties /\ "MINT" \in Parties /\ "BURN" \in Parties
  BY DEF Parties
<1>6. CASE name = "mint"
  <2>1. r.from = "MINT" /\ r.to = as[1]
    BY <1>6, <1>10
  <2> QED
    BY <1>2, <1>5, <1>6, <2>1 DEF r
<1>7. CASE name = "transfer"
  <2>1. r.from = Account(as[1], "MINT") /\ r.to = Account(as[2], "BURN")
    BY <1>7, <1>10
  <2> QED
    BY <1>2, <1>3, <1>4, <1>7, <2>1 DEF r
<1>8. CASE name = "burn"
  <2>1. r.from = as[1] /\ r.to = "BURN"
    BY <1>8, <1>10
  <2> QED
    BY <1>2, <1>5, <1>8, <2>1 DEF r
<1> QED
  BY <1>6, <1>7, <1>8

LEMMA TwoDocs ==
    ASSUME NEW a \in Docs, NEW b \in Docs
    PROVE  <<a, b>> = <<a>> \o <<b>>
<1>1. <<a>> \in Seq(Docs) /\ <<b>> \in Seq(Docs) /\ <<a, b>> \in Seq(Docs)
  OBVIOUS
<1>2. Len(<<a>>) = 1 /\ Len(<<b>>) = 1 /\ Len(<<a, b>>) = 2
  OBVIOUS
<1>3. <<a>> \o <<b>> \in Seq(Docs) /\ Len(<<a>> \o <<b>>) = 2
  BY <1>1, <1>2, Joined
<1>4. \A i \in 1..2 : <<a, b>>[i] = (<<a>> \o <<b>>)[i]
  <2>1. (<<a>> \o <<b>>)[1] = a /\ (<<a>> \o <<b>>)[2] = b
    OBVIOUS
  <2>2. <<a, b>>[1] = a /\ <<a, b>>[2] = b
    OBVIOUS
  <2> QED
    BY <2>1, <2>2
<1> QED
  BY <1>1, <1>2, <1>3, <1>4, SeqEqual

(* AddAccountTokens: an account token is added, or the cache has it; after  *)
(* either the cache has only what it had and what has been added.           *)
CacheOK(C) == blockType \in {"bulk", "sync"} /\ (blockType = "sync" => C = {})

LEMMA OneHolder ==
    ASSUME NEW c \in Accounts, NEW a \in Parties, NEW type \in Standards, NEW C, CacheOK(C)
    PROVE  LET d == AccountTokens(c, a, type)
               u == AddAccountTokens(d, C)
           IN /\ \A D : Parts(u, D)
              /\ Has(u, d) \/ <<c, a>> \in Mark(d, C)
              /\ C \subseteq Mark(d, C) /\ CacheOK(Mark(d, C))
              /\ \A id \in Mark(d, C) : id \in C \/ HasId(u, id)
<1> DEFINE d == AccountTokens(c, a, type)
           u == AddAccountTokens(d, C)
<1>1. d \in Docs /\ d.kind = "account_tokens" /\ Id(d) = <<c, a>>
  BY AccountDoc DEF Id, AccountTokens, Doc
<1> HIDE DEF d
<1>2. /\ C \subseteq Mark(d, C) /\ CacheOK(Mark(d, C)) /\ Mark(d, C) \subseteq C \cup {<<c, a>>}
  BY <1>1 DEF Mark, CacheOK
<1>3. CASE <<c, a>> \in C
  <2>1. u = <<>> /\ Mark(d, C) = C
    BY <1>1, <1>2, <1>3 DEF AddAccountTokens
  <2> QED
    BY <1>2, <1>3, <2>1, NoPart DEF d
<1>4. CASE <<c, a>> \notin C
  <2>1. u = <<d>>
    BY <1>1, <1>4 DEF AddAccountTokens
  <2>2. Has(u, d) /\ HasId(u, <<c, a>>)
    BY <1>1, <2>1, OneDoc DEF Has, HasId
  <2>3. \A D : Parts(u, D)
    BY <1>1, <2>1, OnePart
  <2> QED
    BY <1>2, <2>2, <2>3 DEF d
<1> QED
  BY <1>3, <1>4

(* Holders: every account that a transfer names is added, or the cache has  *)
(* it.                                                                      *)
LEMMA HolderParts ==
    ASSUME NEW name \in {"mint", "transfer", "burn"}, NEW c \in Accounts, NEW type \in Standards,
           NEW e, e.from \in Parties, e.to \in Parties,
           name = "mint" => e.from = "MINT", name = "burn" => e.to = "BURN",
           NEW C, CacheOK(C)
    PROVE  LET h == Holders(name, c, e, type)
               u == Added(h, C)
           IN /\ \A D : Parts(u, D)
              /\ \A a \in {e.from, e.to} \cap Accounts :
                    Has(u, AccountTokens(c, a, type)) \/ <<c, a>> \in Marked(h, C)
              /\ C \subseteq Marked(h, C) /\ CacheOK(Marked(h, C))
              /\ \A id \in Marked(h, C) : id \in C \/ HasId(u, id)
<1> DEFINE to == AccountTokens(c, e.to, type)
           from == AccountTokens(c, e.from, type)
           h == Holders(name, c, e, type)
<1>3. CASE name = "mint"
  <2> DEFINE u == AddAccountTokens(to, C)
             D == Mark(to, C)
  <2>1. h = <<to>> /\ Added(h, C) = u /\ Marked(h, C) = D
    BY <1>3 DEF Holders, Added, Marked
  <2>2. \A a \in {e.from, e.to} \cap Accounts : a = e.to
    BY <1>3, AccountsAssumption
  <2>3. /\ \A B : Parts(u, B)
        /\ Has(u, to) \/ <<c, e.to>> \in D
        /\ C \subseteq D /\ CacheOK(D)
        /\ \A id \in D : id \in C \/ HasId(u, id)
    BY OneHolder
  <2> HIDE DEF h, u, D
  <2> QED
    BY <2>1, <2>2, <2>3 DEF h
<1>4. CASE name = "burn"
  <2> DEFINE u == AddAccountTokens(from, C)
             D == Mark(from, C)
  <2>1. h = <<from>> /\ Added(h, C) = u /\ Marked(h, C) = D
    BY <1>4 DEF Holders, Added, Marked
  <2>2. \A a \in {e.from, e.to} \cap Accounts : a = e.from
    BY <1>4, AccountsAssumption
  <2>3. /\ \A B : Parts(u, B)
        /\ Has(u, from) \/ <<c, e.from>> \in D
        /\ C \subseteq D /\ CacheOK(D)
        /\ \A id \in D : id \in C \/ HasId(u, id)
    BY OneHolder
  <2> HIDE DEF h, u, D
  <2> QED
    BY <2>1, <2>2, <2>3 DEF h
<1>5. CASE name = "transfer"
  <2> DEFINE D == Mark(to, C)
             E == Mark(from, D)
             u == AddAccountTokens(to, C)
             v == AddAccountTokens(from, D)
  <2>1. h = <<to, from>> /\ Added(h, C) = u \o v /\ Marked(h, C) = E
    BY <1>5 DEF Holders, Added, Marked
  <2>2. /\ \A B : Parts(u, B)
        /\ Has(u, to) \/ <<c, e.to>> \in D
        /\ C \subseteq D /\ CacheOK(D)
        /\ \A id \in D : id \in C \/ HasId(u, id)
    BY OneHolder
  <2>3. /\ \A B : Parts(v, B)
        /\ Has(v, from) \/ <<c, e.from>> \in E
        /\ D \subseteq E /\ CacheOK(E)
        /\ \A id \in E : id \in D \/ HasId(v, id)
    BY <2>2, OneHolder
  <2> HIDE DEF h, u, v, D, E
  <2>4. \A B : Parts(u \o v, B)
    BY <2>2, <2>3, PartsJoined
  <2>5. u \in Seq(Docs) /\ v \in Seq(Docs)
    BY <2>2, <2>3 DEF Parts
  <2>6. /\ Has(u \o v, to) \/ <<c, e.to>> \in E
        /\ Has(u \o v, from) \/ <<c, e.from>> \in E
    BY <2>2, <2>3, <2>5, HasJoined
  <2>7. \A id \in E : id \in C \/ HasId(u \o v, id)
    BY <2>2, <2>3, <2>5, HasIdJoined
  <2> QED
    BY <2>1, <2>2, <2>3, <2>4, <2>6, <2>7 DEF h
<1> QED
  BY <1>3, <1>4, <1>5

(* TransferDocs: a transfer with all that belongs to it.                    *)
LEMMA TransferParts ==
    ASSUME NEW name \in {"mint", "transfer", "burn"}, NEW c \in Accounts, NEW type \in Standards,
           NEW args, UnmarshalEvent(name, args) # Failed, NEW C, CacheOK(C)
    PROVE  LET h == Holders(name, c, UnmarshalEvent(name, args), type)
               u == TransferDocs(name, c, UnmarshalEvent(name, args), type, C)
           IN /\ Parts(u, Marked(h, C))
              /\ C \subseteq Marked(h, C) /\ CacheOK(Marked(h, C))
              /\ \A id \in Marked(h, C) : id \in C \/ HasId(u, id)
<1> DEFINE e == UnmarshalEvent(name, args)
           d == Doc("token_transfer", c, e.from, e.to, type)
           supply == IF name = "transfer" THEN <<>> ELSE <<Plain("supply", c)>>
           nft == IF type = "ARC2" THEN <<Plain("nft", c)>> ELSE <<>>
           h == Holders(name, c, e, type)
           holders == Added(h, C)
           M == Marked(h, C)
           u == TransferDocs(name, c, e, type, C)
<1>1. /\ e.from \in Parties /\ e.to \in Parties
      /\ name = "mint" => e.from = "MINT"
      /\ name = "burn" => e.to = "BURN"
  BY EventParties
<1>2. u = ((<<d>> \o supply) \o holders) \o nft
  BY DEF TransferDocs
<1> HIDE DEF e
<1>3. /\ d \in Docs /\ d.kind = "token_transfer" /\ d.contract = c /\ d.type = type
      /\ d.from = e.from /\ d.to = e.to
  BY <1>1 DEF Doc, Docs, DocKinds
<1>4. \A B : Parts(supply, B) /\ Parts(nft, B)
  <2>1. /\ Plain("supply", c) \in Docs /\ Plain("supply", c).kind = "supply"
        /\ Plain("nft", c) \in Docs /\ Plain("nft", c).kind = "nft"
    BY PlainDoc DEF DocKinds
  <2> QED
    BY <2>1, OnePart, NoPart
<1>5. /\ \A B : Parts(holders, B)
      /\ \A a \in {e.from, e.to} \cap Accounts :
            Has(holders, AccountTokens(c, a, type)) \/ <<c, a>> \in M
      /\ C \subseteq M /\ CacheOK(M)
      /\ \A id \in M : id \in C \/ HasId(holders, id)
  BY <1>1, HolderParts
<1> HIDE DEF d, supply, nft, holders, M, u
<1>6. /\ supply \in Seq(Docs) /\ holders \in Seq(Docs) /\ nft \in Seq(Docs) /\ <<d>> \in Seq(Docs)
      /\ supply \o holders \in Seq(Docs)
  BY <1>3, <1>4, <1>5, OneDoc, Joined DEF Parts
<1>7. ((<<d>> \o supply) \o holders) \o nft = <<d>> \o ((supply \o holders) \o nft)
  <2>1. (<<d>> \o supply) \o holders = <<d>> \o (supply \o holders)
    BY <1>6, ConcatAssociative
  <2> QED
    BY <1>6, <2>1, ConcatAssociative
<1>8. Parts((supply \o holders) \o nft, M)
  BY <1>4, <1>5, PartsJoined
<1>9. /\ \A a \in {e.from, e.to} \cap Accounts :
            Has((supply \o holders) \o nft, AccountTokens(c, a, type)) \/ <<c, a>> \in M
      /\ \A id \in M : id \in C \/ HasId((supply \o holders) \o nft, id)
  BY <1>5, <1>6, HasJoined, HasIdJoined
<1>10. Parts(<<d>> \o ((supply \o holders) \o nft), M)
  BY <1>3, <1>8, <1>9, TransferPart
<1>11. \A id \in M : id \in C \/ HasId(<<d>> \o ((supply \o holders) \o nft), id)
  <2>1. (supply \o holders) \o nft \in Seq(Docs)
    BY <1>8 DEF Parts
  <2> QED
    BY <1>6, <1>9, <2>1, HasIdJoined
<1>12. /\ Parts(u, M) /\ C \subseteq M /\ CacheOK(M)
       /\ \A id \in M : id \in C \/ HasId(u, id)
  BY <1>2, <1>5, <1>7, <1>10, <1>11
<1> QED
  BY <1>12 DEF e, M, u, d, supply, nft, holders

(* NewToken.                                                                *)
LEMMA NewTokenParts ==
    ASSUME NEW c \in Accounts \cup {None}, NEW type, NEW account, NEW C, Parts(account, C)
    PROVE  /\ Parts(NewToken(c, type, account), C)
           /\ \A id : HasId(account, id) => HasId(NewToken(c, type, account), id)
<1> DEFINE t == <<Plain("token", c)>>
           k == <<Plain("contract", c)>>
<1>1. /\ Plain("token", c) \in Docs /\ Plain("token", c).kind = "token"
      /\ Plain("contract", c) \in Docs /\ Plain("contract", c).kind = "contract"
  BY PlainDoc DEF DocKinds
<1>2. Parts(t, C) /\ Parts(k, C)
  BY <1>1, OnePart
<1>3. Parts(t \o account, C) /\ NewToken(c, type, account) = (t \o account) \o k
  BY <1>2, PartsJoined DEF NewToken
<1> HIDE DEF t, k
<1>4. \A id : HasId(account, id) => HasId((t \o account) \o k, id)
  BY <1>2, <1>3, HasIdJoined DEF Parts
<1> QED
  BY <1>2, <1>3, <1>4, PartsJoined

(* An event adds its own document and then what it is about.                *)
LEMMA AddEventParts ==
    ASSUME NEW ds, NEW C, NEW D, C \subseteq D, Parts(ds, D), Parts(sent, C), AddEvent(ds)
    PROVE  /\ Parts(sent', D)
           /\ \A id : HasId(sent, id) \/ HasId(ds, id) => HasId(sent', id)
<1> DEFINE ev == <<Plain("event", None)>>
<1>1. Plain("event", None) \in Docs /\ Plain("event", None).kind = "event"
  BY PlainDoc DEF DocKinds
<1>2. \A B : Parts(ev, B)
  BY <1>1, OnePart
<1>3. sent' = (sent \o ev) \o ds
  BY DEF AddEvent
<1> HIDE DEF ev
<1>4. Parts(sent \o ev, C)
  BY <1>2, PartsJoined
<1>5. \A id : HasId(sent, id) \/ HasId(ds, id) => HasId((sent \o ev) \o ds, id)
  BY <1>2, <1>4, HasIdJoined DEF Parts
<1> QED
  BY <1>3, <1>4, <1>5, PartsJoined

-----------------------------------------------------------------------------
(* The inductive invariant of a transaction: all it has added are parts,    *)
(* until its own document comes last, and what it has met in the cache is   *)
(* its own or another's.                                                    *)
TxInv ==
    /\ TxTypeOK
    /\ stage = "start" => sent = <<>>
    /\ \A id \in cached : id \in others \/ HasId(sent, id)
    /\ stage \in {"start", "events"} => Parts(sent, cached)
    /\ stage \in {"done", "panic"} =>
          Complete(sent, cached) /\ {i \in DOMAIN sent : sent[i].kind = "tx"} = {Len(sent)}

LEMMA Returned ==
    ASSUME NEW ds, NEW C, Parts(ds, C), sent' = Return(ds)
    PROVE  /\ sent' \in Seq(Docs) /\ Complete(sent', C)
           /\ {i \in DOMAIN sent' : sent'[i].kind = "tx"} = {Len(sent')}
           /\ \A id : HasId(ds, id) => HasId(sent', id)
<1>0. TxDoc \in Docs /\ TxDoc.kind = "tx"
  BY PlainDoc DEF TxDoc, DocKinds
<1>1. ds \in Seq(Docs) /\ NoTx(ds) /\ Complete(ds, C)
  BY DEF Parts
<1>2. /\ <<TxDoc>> \in Seq(Docs) /\ Len(<<TxDoc>>) = 1 /\ DOMAIN <<TxDoc>> = {1}
      /\ <<TxDoc>>[1] = TxDoc
  BY <1>0, OneDoc
<1>3. Complete(<<TxDoc>>, C)
  BY <1>0, <1>2 DEF Complete
<1>4. sent' = ds \o <<TxDoc>>
  BY DEF Return
<1>5. /\ sent' \in Seq(Docs) /\ Len(ds) \in Nat /\ Len(sent') = Len(ds) + 1
      /\ DOMAIN sent' = 1..(Len(ds) + 1)
      /\ \A i \in 1..Len(ds) : sent'[i] = ds[i]
      /\ sent'[Len(ds) + 1] = TxDoc
      /\ DOMAIN ds = 1..Len(ds)
  BY <1>1, <1>2, <1>4, Joined
<1>6. Complete(sent', C)
  BY <1>1, <1>2, <1>3, <1>4, CompleteJoined
<1>7. \A i \in DOMAIN sent' : sent'[i].kind = "tx" <=> i = Len(sent')
  <2>1. ASSUME NEW i \in 1..(Len(ds) + 1), i # Len(ds) + 1 PROVE sent'[i].kind # "tx"
    <3>1. i \in 1..Len(ds)
      BY <1>5, <2>1
    <3> QED
      BY <1>1, <1>5, <3>1 DEF NoTx
  <2> QED
    BY <1>0, <1>5, <2>1
<1>8. Len(sent') \in DOMAIN sent'
  BY <1>5
<1>9. \A id : HasId(ds, id) => HasId(sent', id)
  BY <1>1, <1>2, <1>4, HasIdJoined
<1> QED
  BY <1>5, <1>6, <1>7, <1>8, <1>9

(* Types of the transaction and its documents, initially.                   *)
LEMMA TxInvInit == InitTx => TxInv
<1>1. InitTx => cached = {} /\ Parts(<<>>, cached)
  BY NoPart DEF InitTx
<1> QED
  BY <1>1 DEF InitTx, TxInv, TxTypeOK, Parts

(* The receipt, and what is mined before the events.                        *)
LEMMA ReceiptNext ==
    ASSUME TxInv, MineName \/ NotMined \/ Panic \/ MineDeploy \/ MineCall
    PROVE  TxInv'
<1>0. /\ UNCHANGED <<standard, blockType, cached, others>>
      /\ \A id \in cached : id \in others
  <2>1. stage = "start" /\ UNCHANGED <<standard, blockType, cached, others>>
    BY DEF MineName, NotMined, Panic, MineDeploy, MineCall, GetReceipt
  <2>2. sent = <<>>
    BY <2>1 DEF TxInv
  <2>3. \A id : ~HasId(sent, id)
    BY <2>2 DEF HasId
  <2> QED
    BY <2>1, <2>3 DEF TxInv
<1>1. CASE MineName
  <2>1. Plain("name", None) \in Docs /\ Plain("name", None).kind = "name"
    BY PlainDoc DEF DocKinds
  <2>2. Parts(<<Plain("name", None)>>, cached)
    BY <2>1, OnePart
  <2>3. stage' = "done" /\ sent' = Return(<<Plain("name", None)>>)
    BY <1>1 DEF MineName
  <2> QED
    BY <1>0, <2>2, <2>3, Returned DEF TxInv, TxTypeOK
<1>2. CASE NotMined \/ Panic
  <2>1. stage' \in {"done", "panic"} /\ sent' = Return(<<>>) /\ Parts(<<>>, cached)
    BY <1>2, NoPart DEF NotMined, Panic
  <2> QED
    BY <1>0, <2>1, Returned DEF TxInv, TxTypeOK
<1>3. CASE MineDeploy
  <2>1. PICK c \in Accounts : sent' = <<Plain("contract", c)>>
    BY <1>3 DEF MineDeploy
  <2>2. Plain("contract", c) \in Docs /\ Plain("contract", c).kind = "contract"
    BY PlainDoc DEF DocKinds
  <2>3. Parts(sent', cached)
    BY <2>1, <2>2, OnePart
  <2>4. stage' = "events"
    BY <1>3 DEF MineDeploy
  <2> QED
    BY <1>0, <2>3, <2>4 DEF TxInv, TxTypeOK, Parts
<1>4. CASE MineCall
  <2>1. stage' = "events" /\ sent' = <<>> /\ Parts(<<>>, cached)
    BY <1>4, NoPart DEF MineCall
  <2> QED
    BY <1>0, <2>1 DEF TxInv, TxTypeOK, Parts
<1> QED
  BY <1>1, <1>2, <1>3, <1>4

(* What an event adds about accounts, when other transactions have marked   *)
(* m of them.                                                               *)
LEMMA MeetNext ==
    ASSUME TxInv, stage = "events", stage' = "events", UNCHANGED <<standard, blockType>>,
           NEW h, NEW m, Meet(h, m), NEW ds, AddEvent(ds),
           LET C == cached \cup m
               D == Marked(h, C)
           IN CacheOK(C) => /\ Parts(ds, D) /\ C \subseteq D /\ CacheOK(D)
                            /\ \A id \in D : id \in C \/ HasId(ds, id)
    PROVE  TxInv'
<1>1. /\ cached' = Marked(h, cached \cup m) /\ others' = others \cup m
      /\ blockType = "sync" => m = {}
  BY DEF Meet
<1>2. CacheOK(cached \cup m)
  BY <1>1 DEF CacheOK, TxInv, TxTypeOK
<1>3. /\ Parts(ds, cached') /\ cached \subseteq cached' /\ CacheOK(cached')
      /\ \A id \in cached' : id \in cached \cup m \/ HasId(ds, id)
  BY <1>1, <1>2
<1>4. /\ Parts(sent', cached')
      /\ \A id : HasId(sent, id) \/ HasId(ds, id) => HasId(sent', id)
  BY <1>3, AddEventParts DEF TxInv
<1>5. \A id \in cached' : id \in others' \/ HasId(sent', id)
  BY <1>1, <1>3, <1>4 DEF TxInv
<1> QED
  BY <1>3, <1>4, <1>5 DEF TxInv, TxTypeOK, Parts, CacheOK

\* An event that adds nothing but its document.
LEMMA EmptyNext ==
    ASSUME TxInv, stage = "events", stage' = "events",
           UNCHANGED <<standard, blockType>>, AddEvent(<<>>), NoHolders
    PROVE  TxInv'
<1>1. Parts(<<>>, cached) /\ UNCHANGED <<cached, others>>
  BY NoPart DEF NoHolders
<1>2. /\ Parts(sent', cached)
      /\ \A id : HasId(sent, id) => HasId(sent', id)
  BY <1>1, AddEventParts DEF TxInv
<1> QED
  BY <1>1, <1>2 DEF TxInv, TxTypeOK, Parts

(* An event.                                                                *)
LEMMA EventNext ==
    ASSUME TxInv, MoreEvents, NEW e \in Event, IgnoreEvent(e) \/ NewArcToken(e) \/ TokenTransfer(e)
    PROVE  TxInv'
<1>0. stage = "events" /\ stage' = "events" /\ UNCHANGED <<standard, blockType>>
  BY DEF MoreEvents, MinerEvent, IgnoreEvent, NewArcToken, TokenTransfer
<1>2. CASE IgnoreEvent(e)
  BY <1>0, <1>2, EmptyNext DEF IgnoreEvent
<1>3. CASE NewArcToken(e)
  <2> DEFINE c == UnmarshalEventNewArcToken(e.args)
             type == IF e.name = "new_arc1_token" THEN "ARC1" ELSE "ARC2"
             h == <<AccountTokens(c, Creator, type)>>
             ds(m) == NewToken(c, type, Added(h, cached \cup m))
  <2>1. c \in Accounts /\ type \in Standards /\ Creator \in Parties
    BY <1>3, MinerTxAssumption DEF NewArcToken, Standards, Parties, Strings
  <2>2. CASE AddEvent(<<>>) /\ NoHolders
    BY <1>0, <2>2, EmptyNext
  <2>3. ASSUME NEW m, Meet(h, m), AddEvent(ds(m)) PROVE TxInv'
    <3> DEFINE C == cached \cup m
               d == AccountTokens(c, Creator, type)
    <3>1. Added(h, C) = AddAccountTokens(d, C) /\ Marked(h, C) = Mark(d, C)
      BY DEF Added, Marked
    <3> HIDE DEF c, type
    <3>2. ASSUME CacheOK(C)
          PROVE  /\ Parts(ds(m), Marked(h, C))
                 /\ C \subseteq Marked(h, C) /\ CacheOK(Marked(h, C))
                 /\ \A id \in Marked(h, C) : id \in C \/ HasId(ds(m), id)
      <4>1. /\ \A D : Parts(Added(h, C), D)
            /\ C \subseteq Marked(h, C) /\ CacheOK(Marked(h, C))
            /\ \A id \in Marked(h, C) : id \in C \/ HasId(Added(h, C), id)
        <5> DEFINE u == AddAccountTokens(d, C)
                   D == Mark(d, C)
        <5> HIDE DEF C
        <5>1. /\ \A B : Parts(u, B)
              /\ C \subseteq D /\ CacheOK(D)
              /\ \A id \in D : id \in C \/ HasId(u, id)
          BY <2>1, <3>2, OneHolder
        <5> HIDE DEF u, D, h, d
        <5> QED
          BY <3>1, <5>1 DEF u, D
      <4> HIDE DEF h, C
      <4> QED
        BY <2>1, <4>1, NewTokenParts DEF C
    <3> HIDE DEF h, ds
    <3> QED
      BY <1>0, <2>3, <3>2, MeetNext
  <2> QED
    BY <1>3, <2>2, <2>3 DEF NewArcToken
<1>4. CASE TokenTransfer(e)
  <2> DEFINE p == UnmarshalEvent(e.name, e.args)
             h(type) == Holders(e.name, e.contract, p, type)
             ds(type, m) == TransferDocs(e.name, e.contract, p, type, cached \cup m)
  <2>1. /\ e.name \in {"mint", "transfer", "burn"} /\ e.contract \in Accounts
        /\ p # Failed
    BY <1>4, MinerTxAssumption DEF TokenTransfer, Event
  <2>2. PICK type \in OwnerOfAnswers(e.contract) :
            \/ \E m : Meet(h(type), m) /\ AddEvent(ds(type, m))
            \/ AddEvent(<<>>) /\ NoHolders
    BY <1>4 DEF TokenTransfer
  <2>3. type \in Standards
    BY DEF OwnerOfAnswers, Standards
  <2>4. CASE AddEvent(<<>>) /\ NoHolders
    BY <1>0, <2>4, EmptyNext
  <2>5. ASSUME NEW m, Meet(h(type), m), AddEvent(ds(type, m)) PROVE TxInv'
    <3> DEFINE C == cached \cup m
    <3>1. ASSUME CacheOK(C)
          PROVE  /\ Parts(ds(type, m), Marked(h(type), C))
                 /\ C \subseteq Marked(h(type), C) /\ CacheOK(Marked(h(type), C))
                 /\ \A id \in Marked(h(type), C) : id \in C \/ HasId(ds(type, m), id)
      <4> HIDE DEF C
      <4>1. ds(type, m) = TransferDocs(e.name, e.contract, p, type, C)
        BY DEF C
      <4> HIDE DEF ds
      <4> QED
        BY <2>1, <2>3, <3>1, <4>1, TransferParts
    <3> HIDE DEF h, ds
    <3> QED
      BY <1>0, <2>5, <3>1, MeetNext
  <2> QED
    BY <2>2, <2>4, <2>5
<1> QED
  BY <1>2, <1>3, <1>4

(* The end of the events.                                                   *)
LEMMA EndNext ==
    ASSUME TxInv, NoToken \/ PolicyTwo
    PROVE  TxInv'
<1>0. /\ Parts(sent, cached) /\ sent \in Seq(Docs) /\ stage' = "done"
      /\ UNCHANGED <<standard, blockType, cached, others>>
  BY DEF TxInv, TxTypeOK, NoToken, PolicyTwo
<1>1. CASE NoToken
  BY <1>0, <1>1, Returned DEF NoToken, TxInv, TxTypeOK
<1>2. CASE PolicyTwo
  <2>1. PICK i \in DOMAIN sent :
            sent' = Return(sent \o NewToken(sent[i].contract, MaybeTokenCreation(tx), <<>>))
    BY <1>2 DEF PolicyTwo
  <2> DEFINE u == NewToken(sent[i].contract, MaybeTokenCreation(tx), <<>>)
  <2>2. sent[i].contract \in Accounts \cup {None}
    <3>1. sent[i] \in Docs
      BY <1>0, <2>1
    <3> QED
      BY <3>1 DEF Docs
  <2>3. Parts(<<>>, cached)
    BY NoPart
  <2>4. Parts(u, cached)
    BY <2>2, <2>3, NewTokenParts
  <2> HIDE DEF u
  <2>5. Parts(sent \o u, cached) /\ \A id : HasId(sent, id) => HasId(sent \o u, id)
    BY <1>0, <2>4, PartsJoined, HasIdJoined DEF Parts
  <2>6. sent' = Return(sent \o u)
    BY <2>1 DEF u
  <2> QED
    BY <1>0, <2>5, <2>6, Returned DEF TxInv, TxTypeOK
<1> QED
  BY <1>1, <1>2

(* The inductive invariant of a transaction.                                *)
THEOREM TxInvariant == SpecTx => []TxInv
<1>1. TxInv /\ [NextTx]_txVars => TxInv'
  <2>1. TxInv /\ UNCHANGED txVars => TxInv'
    BY DEF txVars, TxInv, TxTypeOK, Parts, NoTx, Complete, HasId, Id, AccountTokens, Doc
  <2> QED
    BY <2>1, ReceiptNext, EventNext, EndNext DEF NextTx
<1> QED
  BY <1>1, TxInvInit, PTL DEF SpecTx

(* On every path through MinerTx the document of the transaction is added   *)
(* once, after all of its parts (miner.go:67).                              *)
THEOREM TxComesLast == SpecTx => []TxLast
<1>1. TxInv => TxLast
  BY DEF TxInv, TxLast, SentKind, Parts, NoTx
<1> QED
  BY <1>1, TxInvariant, PTL

(* Every account a transfer names has its balance written after it, under   *)
(* the token type of the transfer (MinerEventByName), unless the cache of   *)
(* the check holds it back: then it has been written, under the type which  *)
(* its own event was told, or another transaction has marked it.            *)
THEOREM HoldersAreWritten == SpecTx => []HoldersWritten
<1>1. TxInv => HoldersWritten
  <2>1. TxInv => Complete(sent, cached)
    BY DEF TxInv, TxTypeOK, Parts
  <2>2. ASSUME TxInv, NEW i \in SentKind("token_transfer"),
               NEW a \in {sent[i].from, sent[i].to} \cap Accounts
        PROVE  WrittenAs(i, a) \/ HeldBack(i, a)
    <3> DEFINE c == sent[i].contract
    <3>1. i \in DOMAIN sent /\ sent[i].kind = "token_transfer"
      BY DEF SentKind
    <3>2. CASE \E j \in DOMAIN sent : j > i /\ sent[j] = AccountTokens(c, a, sent[i].type)
      <4>1. PICK j \in DOMAIN sent : j > i /\ sent[j] = AccountTokens(c, a, sent[i].type)
        BY <3>2
      <4>2. j \in SentKind("account_tokens")
        BY <4>1 DEF SentKind, AccountTokens, Doc
      <4> QED
        BY <4>1, <4>2 DEF WrittenAs
    <3>3. CASE <<c, a>> \in cached
      <4>1. blockType = "bulk" /\ (<<c, a>> \in others \/ HasId(sent, <<c, a>>))
        BY <2>2, <3>3 DEF TxInv, TxTypeOK
      <4> QED
        BY <4>1 DEF HeldBack, HasId, SentKind
    <3> QED
      BY <2>1, <2>2, <3>1, <3>2, <3>3 DEF Complete
  <2> QED
    BY <2>2 DEF HoldersWritten
<1> QED
  BY <1>1, TxInvariant, PTL

-----------------------------------------------------------------------------
(* The whitelist.                                                           *)

(* The largest of a set of contracts.                                       *)
LEMMA MaxContract ==
    ASSUME NEW S \in SUBSET Contracts, S # {}
    PROVE  Max(S) \in S
<1> DEFINE T == {NContracts - x : x \in S}
<1>0. NContracts \in Nat
  BY WhitelistAssumption
<1>1. T \subseteq Nat /\ T # {}
  <2>1. \A x \in S : NContracts - x \in Nat
    BY <1>0 DEF Contracts
  <2>2. PICK x \in S : TRUE
    OBVIOUS
  <2>3. NContracts - x \in T
    OBVIOUS
  <2> QED
    BY <2>1, <2>3
<1>2. PICK t \in T : \A y \in T : ~ (<<y, t>> \in OpToRel(<, Nat))
  <2> HIDE DEF T
  <2> QED
    BY <1>1, NatLessThanWellFounded, WFMin
<1>3. \A y \in T : ~ (y < t)
  BY <1>1, <1>2 DEF OpToRel
<1>4. PICK x \in S : t = NContracts - x
  BY <1>2
<1>5. \A y \in S : x >= y
  <2>1. SUFFICES ASSUME NEW y \in S PROVE x >= y
    OBVIOUS
  <2>2. NContracts - y \in T
    OBVIOUS
  <2>3. ~ (NContracts - y < NContracts - x)
    BY <1>3, <1>4, <2>2
  <2> QED
    BY <1>0, <2>3 DEF Contracts
<1> QED
  BY <1>4, <1>5 DEF Max

(* What Nil is not.                                                         *)
LEMMA NilIsNone ==
    /\ Nil \notin Tokens /\ Nil \notin Contracts /\ Nil \notin Entry /\ Nil \notin Document
    /\ NewDoc \in Document /\ NewDoc # Nil
    /\ Empty \in [Tokens -> Entry \cup {Nil}] /\ \A t \in Tokens : Empty[t] = Nil
<1>1. Nil \notin Tokens /\ Nil \notin Contracts /\ Nil \notin Entry /\ Nil \notin Document
  BY WhitelistAssumption DEF Contracts, Entry, Document
<1>2. NewDoc \in Document
  BY DEF NewDoc, Document
<1>3. Empty \in [Tokens -> Entry \cup {Nil}] /\ \A t \in Tokens : Empty[t] = Nil
  BY DEF Empty
<1> QED
  BY <1>1, <1>2, <1>3

(* An entry is its type and its contract.                                   *)
LEMMA Entries ==
    /\ \A k \in Kinds, c \in Contracts \cup {Nil} :
          [type |-> k, contract |-> c] \in Entry /\ [type |-> k, contract |-> c] # Nil
    /\ \A e \in Entry : /\ e.type \in Kinds /\ e.contract \in Contracts \cup {Nil}
                        /\ e = [type |-> e.type, contract |-> e.contract]
<1>1. \A k \in Kinds, c \in Contracts \cup {Nil} : [type |-> k, contract |-> c] \in Entry
  BY DEF Entry
<1>2. \A e \in Entry : /\ e.type \in Kinds /\ e.contract \in Contracts \cup {Nil}
                       /\ e = [type |-> e.type, contract |-> e.contract]
  BY DEF Entry
<1> QED
  BY <1>1, <1>2, NilIsNone

-----------------------------------------------------------------------------
(* What MinerTokenVerified and MinerContractVerified do for the entry e of  *)
(* token t, the answer m of the node and the contract c to remember: which  *)
(* documents they change, and what c is.                                    *)
Stuck(e, m) == Leaves(e, m) /\ docs[e.type][e.contract] = Nil

Answered(e, m) ==
    IF Stuck(e, m) THEN e.contract
    ELSE IF m.contract = Nil THEN Nil
    ELSE IF docs[e.type][m.contract] = Nil THEN e.contract
    ELSE m.contract

NewMark(t, k, d, m) ==
    \E code \in BOOLEAN :
        /\ docs'[k][d] = [token |-> t, codeUrl |-> m.codeUrl, verified |-> code]
        /\ k = "contract" /\ m.codeUrl /\ "code" \notin seen' => code

Looked(e, t, m) ==
    /\ mapWhitelist' = IF Answered(e, m) = e.contract THEN mapWhitelist
                       ELSE [mapWhitelist EXCEPT ![t] =
                               [type |-> e.type, contract |-> Answered(e, m)]]
    /\ seen' = seen \/ seen' = seen \cup {"code"}
    /\ docs' \in [Kinds -> [Contracts -> Document \cup {Nil}]]
    /\ \A k \in Kinds, d \in Contracts :
          \/ docs'[k][d] = docs[k][d]
          \/ /\ docs[k][d] # Nil /\ k = e.type /\ d = e.contract /\ Leaves(e, m)
             /\ docs'[k][d] = NewDoc
          \/ /\ docs[k][d] # Nil /\ k = e.type /\ d = m.contract /\ ~Stuck(e, m)
             /\ NewMark(t, k, d, m)
    /\ Leaves(e, m) /\ ~Stuck(e, m) => docs'[e.type][e.contract] = NewDoc
    /\ ~Stuck(e, m) /\ m.contract # Nil /\ docs[e.type][m.contract] # Nil =>
          \/ docs'[e.type][m.contract].token = t
          \/ /\ docs'[e.type][m.contract] = docs[e.type][m.contract]
             /\ docs[e.type][m.contract].codeUrl

LEMMA Looks ==
    ASSUME TypeOK, NEW e \in Entry, NEW t \in Tokens, NEW m \in Claim, MinerVerified(e, t, m)
    PROVE  Looked(e, t, m)
<1> DEFINE k == e.type
           left == IF Leaves(e, m) THEN Removed(k, e.contract) ELSE docs[k]
           D == Document \cup {Nil}
<1>0. /\ k \in Kinds /\ e.contract \in Contracts \cup {Nil} /\ m.contract \in Contracts \cup {Nil}
      /\ m.codeUrl \in BOOLEAN
      /\ docs \in [Kinds -> [Contracts -> D]]
  BY Entries DEF TypeOK, Claim
<1>1. left \in [Contracts -> D]
  BY <1>0, NilIsNone DEF Removed
<1>2. Leaves(e, m) => e.contract \in Contracts /\ m.contract # e.contract
  BY <1>0 DEF Leaves
<1>3. /\ Leaves(e, m) => left[e.contract] = NewDoc
      /\ \A d \in Contracts : left[d] = docs[k][d] \/ (Leaves(e, m) /\ d = e.contract)
  BY <1>0, <1>2 DEF Removed
<1> HIDE DEF left
<1> DEFINE Recall(c) == mapWhitelist' = IF c = e.contract THEN mapWhitelist
                                         ELSE [mapWhitelist EXCEPT ![t] = [type |-> k, contract |-> c]]
           Kept == docs' = [docs EXCEPT ![k] = left]
           Updated(code) == docs' = [docs EXCEPT ![k] = Verified(k, left, t, m, code)]
<1>4. \/ Stuck(e, m) /\ Recall(e.contract) /\ docs' = docs /\ seen' = seen
      \/ ~Stuck(e, m) /\ m.contract = Nil /\ Recall(Nil) /\ Kept /\ seen' = seen
      \/ /\ ~Stuck(e, m) /\ m.contract # Nil /\ left[m.contract] = Nil
         /\ Recall(e.contract) /\ Kept /\ seen' = seen
      \/ /\ ~Stuck(e, m) /\ m.contract # Nil /\ left[m.contract] # Nil
         /\ Recall(m.contract)
         /\ \/ Skipped(e, left, m) /\ Kept /\ seen' = seen
            \/ Updated(k = "token" \/ m.codeUrl) /\ seen' = seen
            \/ Updated(FALSE) /\ seen' = seen \cup {"code"}
  BY DEF MinerVerified, Stuck, left
<1>5. m.contract # Nil => /\ m.contract \in Contracts
                          /\ left[m.contract] = Nil <=> docs[k][m.contract] = Nil
  <2>1. m.contract # Nil => m.contract \in Contracts
    BY <1>0
  <2>2. ASSUME m.contract # Nil PROVE left[m.contract] = docs[k][m.contract]
    <3>1. m.contract \in Contracts /\ ~(Leaves(e, m) /\ m.contract = e.contract)
      BY <1>2, <2>1, <2>2
    <3> QED
      BY <1>3, <3>1
  <2> QED
    BY <2>1, <2>2
<1>6. Recall(Answered(e, m)) /\ (seen' = seen \/ seen' = seen \cup {"code"})
  <2> HIDE DEF Recall, Kept, Updated
  <2> QED
    BY <1>4, <1>5 DEF Answered
<1>7. ASSUME Kept
      PROVE  /\ docs' \in [Kinds -> [Contracts -> D]] /\ docs'[k] = left
             /\ \A j \in Kinds : j # k => docs'[j] = docs[j]
  BY <1>0, <1>1, <1>7
<1>8. ~Stuck(e, m) /\ Leaves(e, m) => docs[k][e.contract] # Nil
  BY DEF Stuck
<1> HIDE DEF D
<1>9. CASE Stuck(e, m)
  <2>1. docs' = docs
    BY <1>4, <1>9
  <2> QED
    BY <1>0, <1>6, <1>9, <2>1 DEF Looked, D
<1>10. CASE ~Stuck(e, m) /\ Kept /\ (m.contract # Nil /\ left[m.contract] # Nil => Skipped(e, left, m))
  <2>1. /\ docs' \in [Kinds -> [Contracts -> D]] /\ docs'[k] = left
        /\ \A j \in Kinds : j # k => docs'[j] = docs[j]
    BY <1>7, <1>10
  <2>2. ASSUME NEW j \in Kinds, NEW d \in Contracts
        PROVE  \/ docs'[j][d] = docs[j][d]
               \/ /\ docs[j][d] # Nil /\ j = e.type /\ d = e.contract /\ Leaves(e, m)
                  /\ docs'[j][d] = NewDoc
    BY <1>3, <1>8, <1>10, <2>1
  <2>3. Leaves(e, m) => docs'[k][e.contract] = NewDoc
    BY <1>3, <2>1
  <2>4. ASSUME m.contract # Nil, docs[k][m.contract] # Nil
        PROVE  docs'[k][m.contract] = docs[k][m.contract] /\ docs[k][m.contract].codeUrl
    <3>1. m.contract \in Contracts /\ left[m.contract] # Nil
      BY <1>5, <2>4
    <3>2. left[m.contract].codeUrl
      BY <1>10, <2>4, <3>1 DEF Skipped
    <3>3. left[m.contract] = docs[k][m.contract]
      BY <1>2, <1>3, <3>1
    <3> QED
      BY <2>1, <3>2, <3>3
  <2> QED
    BY <1>6, <1>10, <2>1, <2>2, <2>3, <2>4 DEF Looked, D
<1>11. ASSUME NEW code \in BOOLEAN, ~Stuck(e, m), m.contract # Nil, left[m.contract] # Nil,
              Updated(code), k = "contract" /\ m.codeUrl /\ "code" \notin seen' => code
       PROVE  Looked(e, t, m)
  <2> DEFINE mark == [token |-> t, codeUrl |-> m.codeUrl, verified |-> code]
  <2>1. m.contract \in Contracts /\ docs[k][m.contract] # Nil
    BY <1>5, <1>11
  <2>2. mark \in D
    BY <1>0, <1>11 DEF D, Document
  <2>3. /\ Verified(k, left, t, m, code) \in [Contracts -> D]
        /\ Verified(k, left, t, m, code)[m.contract] = mark
        /\ \A d \in Contracts : d # m.contract => Verified(k, left, t, m, code)[d] = left[d]
    <3> HIDE DEF mark
    <3>1. Verified(k, left, t, m, code) = [left EXCEPT ![m.contract] = mark]
      BY DEF Verified, mark
    <3> QED
      BY <1>1, <2>1, <2>2, <3>1 DEF D
  <2>4. /\ docs' \in [Kinds -> [Contracts -> D]] /\ docs'[k] = Verified(k, left, t, m, code)
        /\ \A j \in Kinds : j # k => docs'[j] = docs[j]
    BY <1>0, <1>11, <2>3 DEF D
  <2>5. docs'[k][m.contract] = mark /\ mark.token = t
    BY <2>3, <2>4
  <2>6. ASSUME NEW j \in Kinds, NEW d \in Contracts
        PROVE  \/ docs'[j][d] = docs[j][d]
               \/ /\ docs[j][d] # Nil /\ j = e.type /\ d = e.contract /\ Leaves(e, m)
                  /\ docs'[j][d] = NewDoc
               \/ /\ docs[j][d] # Nil /\ j = e.type /\ d = m.contract /\ ~Stuck(e, m)
                  /\ NewMark(t, j, d, m)
    <3>1. CASE j # k
      BY <2>4, <3>1
    <3>2. CASE j = k /\ d = m.contract
      BY <1>11, <2>1, <2>5, <3>2 DEF NewMark
    <3>3. CASE j = k /\ d # m.contract
      BY <1>3, <1>8, <1>11, <2>3, <2>4, <3>3
    <3> QED
      BY <3>1, <3>2, <3>3
  <2>7. Leaves(e, m) => docs'[k][e.contract] = NewDoc
    BY <1>2, <1>3, <2>3, <2>4
  <2> HIDE DEF mark
  <2> QED
    BY <1>6, <1>11, <2>4, <2>5, <2>6, <2>7 DEF Looked, D
<1>12. CASE Updated(k = "token" \/ m.codeUrl) /\ ~Stuck(e, m) /\ m.contract # Nil /\ left[m.contract] # Nil
  <2>1. (k = "token" \/ m.codeUrl) \in BOOLEAN
    OBVIOUS
  <2>2. k = "contract" /\ m.codeUrl /\ "code" \notin seen' => (k = "token" \/ m.codeUrl)
    OBVIOUS
  <2> QED
    BY <1>11, <1>12, <2>1, <2>2
<1>13. CASE /\ Updated(FALSE) /\ seen' = seen \cup {"code"}
            /\ ~Stuck(e, m) /\ m.contract # Nil /\ left[m.contract] # Nil
  BY <1>11, <1>13
<1> QED
  <2> HIDE DEF Recall, Kept, Updated
  <2> QED
    BY <1>4, <1>9, <1>10, <1>12, <1>13

(* The invariants together.                                                 *)
WhitelistInv ==
    TypeOK /\ RefreshInv /\ MarksInv /\ KeptInv /\ SettledInv /\ UrlInv /\ ClaimsInv

\* What a change from outside, and what a step of the refresh on token t leaves alone.
Outside ==
    \/ \E k \in Kinds, t \in Tokens : SetMetadata(k, t) \/ MinerEventByAddr(k, t)
    \/ \E k \in Kinds, c \in Contracts : AddDoc(k, c) \/ DeleteDoc(k, c)

(* Refresh and RefreshFailed: a token is looked at.                         *)
LEMMA RefreshLooks ==
    ASSUME TypeOK, RefreshInv, NEW t \in Tokens, Refresh(t) \/ RefreshFailed(t)
    PROVE  /\ t \in pending /\ found[t] \in Entry /\ mapWhitelist[t] = Nil /\ pc = "scroll"
           /\ pending' = pending \ {t} /\ UNCHANGED <<claim, whitelist, pc, found>>
           /\ \E m \in Claim :
                 /\ Looked(found[t], t, m)
                 /\ \/ m = claim[found[t].type][t] /\ stable' = stable /\ rounds' = rounds
                    \/ stable' = FALSE /\ rounds' = 0
<1>1. t \in pending /\ pc = "scroll"
  BY DEF Refresh, RefreshFailed
<1>2. found[t] \in Entry /\ mapWhitelist[t] = Nil
  BY <1>1 DEF TypeOK, RefreshInv
<1>3. pending' = pending \ {t} /\ UNCHANGED <<claim, whitelist, pc, found>>
  BY DEF Refresh, RefreshFailed
<1>4. CASE Refresh(t)
  <2>1. claim[found[t].type][t] \in Claim
    BY <1>2, Entries DEF TypeOK
  <2>2. Looked(found[t], t, claim[found[t].type][t])
    BY <1>2, <1>4, <2>1, Looks DEF Refresh
  <2>3. stable' = stable /\ rounds' = rounds
    BY <1>4 DEF Refresh
  <2> QED
    BY <1>1, <1>2, <1>3, <2>1, <2>2, <2>3
<1>5. CASE RefreshFailed(t)
  <2> DEFINE m == [contract |-> Nil, codeUrl |-> FALSE]
  <2>1. m \in Claim
    BY DEF Claim
  <2>2. Looked(found[t], t, m)
    BY <1>2, <1>5, <2>1, Looks DEF RefreshFailed
  <2>3. stable' = FALSE /\ rounds' = 0
    BY <1>5 DEF RefreshFailed, Change
  <2> HIDE DEF m
  <2> QED
    BY <1>1, <1>2, <1>3, <2>1, <2>2, <2>3
<1> QED
  BY <1>4, <1>5

(* What has been seen is not forgotten.                                     *)
LEMMA SeenGrows ==
    ASSUME TypeOK, RefreshInv, [Next]_vars
    PROVE  seen \subseteq seen'
<1>1. CASE \E k \in Kinds, t \in Tokens : SetMetadata(k, t) \/ MinerEventByAddr(k, t)
  BY <1>1 DEF SetMetadata, MinerEventByAddr
<1>2. CASE \E k \in Kinds, c \in Contracts : AddDoc(k, c) \/ DeleteDoc(k, c)
  BY <1>2 DEF AddDoc, DeleteDoc
<1>3. CASE \E t \in Tokens : Refresh(t) \/ RefreshFailed(t)
  <2>1. PICK t \in Tokens : Refresh(t) \/ RefreshFailed(t)
    BY <1>3
  <2>2. PICK m \in Claim : Looked(found[t], t, m)
    BY <2>1, RefreshLooks
  <2> QED
    BY <2>2 DEF Looked
<1>4. CASE ScrollWhitelist \/ EndRefresh \/ (\E t \in Tokens : WriteBack(t)) \/ Restart
  BY <1>4 DEF ScrollWhitelist, EndRefresh, WriteBack, Restart
<1>5. CASE UNCHANGED vars
  BY <1>5 DEF vars
<1> QED
  BY <1>1, <1>2, <1>3, <1>4, <1>5 DEF Next, RefreshStep

(* What is remembered is an entry.                                          *)
LEMMA AnsweredEntry ==
    ASSUME NEW e \in Entry, NEW m \in Claim
    PROVE  /\ Answered(e, m) \in Contracts \cup {Nil}
           /\ [type |-> e.type, contract |-> Answered(e, m)] \in Entry
<1>1. e.type \in Kinds /\ e.contract \in Contracts \cup {Nil} /\ m.contract \in Contracts \cup {Nil}
  BY Entries DEF Claim
<1>2. Answered(e, m) \in Contracts \cup {Nil}
  BY <1>1 DEF Answered
<1> QED
  BY <1>1, <1>2, Entries

(* registerVariables: what is registered is an entry with a document.       *)
LEMMA RegisteredEntry ==
    ASSUME TypeOK, NEW t \in Tokens
    PROVE  /\ Registered(t) \in Entry \cup {Nil}
           /\ Registered(t) = Nil => whitelist[t] = Nil
           /\ \/ Registered(t) = whitelist[t]
              \/ /\ Registered(t) \in Entry /\ Registered(t).contract \in Contracts
                 /\ docs[Registered(t).type][Registered(t).contract] # Nil
<1>1. ASSUME NEW k, VerifiedBy(k, t) # {}
      PROVE  /\ k \in Kinds /\ Max(VerifiedBy(k, t)) \in Contracts
             /\ docs[k][Max(VerifiedBy(k, t))] # Nil
             /\ [type |-> k, contract |-> Max(VerifiedBy(k, t))] \in Entry
             /\ [type |-> k, contract |-> Max(VerifiedBy(k, t))] # Nil
  <2>1. k \in Kinds /\ VerifiedBy(k, t) \subseteq Contracts
    BY <1>1 DEF VerifiedBy
  <2>2. Max(VerifiedBy(k, t)) \in VerifiedBy(k, t)
    BY <1>1, <2>1, MaxContract
  <2>3. docs[k][Max(VerifiedBy(k, t))] # Nil
    BY <2>1, <2>2 DEF VerifiedBy
  <2> QED
    BY <2>1, <2>2, <2>3, Entries
<1>2. whitelist[t] \in Entry \cup {Nil}
  BY DEF TypeOK
<1>3. CASE VerifiedBy("contract", t) # {}
  <2>1. Registered(t) = [type |-> "contract", contract |-> Max(VerifiedBy("contract", t))]
    BY <1>3 DEF Registered
  <2> QED
    BY <1>1, <1>3, <2>1
<1>4. CASE VerifiedBy("contract", t) = {} /\ VerifiedBy("token", t) # {}
  <2>1. Registered(t) = [type |-> "token", contract |-> Max(VerifiedBy("token", t))]
    BY <1>4 DEF Registered
  <2> QED
    BY <1>1, <1>4, <2>1
<1>5. CASE VerifiedBy("contract", t) = {} /\ VerifiedBy("token", t) = {}
  BY <1>2, <1>5 DEF Registered
<1> QED
  BY <1>3, <1>4, <1>5

-----------------------------------------------------------------------------
(* Types.                                                                   *)
LEMMA WhitelistTypesInit == Init => TypeOK
<1> SUFFICES ASSUME Init PROVE TypeOK
  OBVIOUS
<1>1. claim \in [Kinds -> [Tokens -> Claim]]
  BY DEF Init, Claim
<1>2. docs \in [Kinds -> [Contracts -> Document \cup {Nil}]]
  BY NilIsNone DEF Init
<1>3. whitelist = Empty /\ found = Empty /\ mapWhitelist = Empty /\ pc = "idle" /\ pending = {}
  BY DEF Init
<1>4. rounds \in 0..2
  BY DEF Init
<1>6. stable \in BOOLEAN
  BY DEF Init
<1>5. seen \subseteq {"event", "delete", "code"}
  BY DEF Init
<1> QED
  BY <1>1, <1>2, <1>3, <1>4, <1>5, <1>6, NilIsNone DEF TypeOK

LEMMA WhitelistTypesOutside == ASSUME TypeOK, Outside PROVE TypeOK'
<1>0. /\ rounds' = 0 /\ stable' = FALSE
      /\ seen' = seen \/ seen' = seen \cup {"event"} \/ seen' = seen \cup {"delete"}
      /\ UNCHANGED <<pc, found, pending, mapWhitelist>>
  <2>1. CASE \E k \in Kinds, t \in Tokens : SetMetadata(k, t) \/ MinerEventByAddr(k, t)
    BY <2>1 DEF SetMetadata, MinerEventByAddr, Change
  <2>2. CASE \E k \in Kinds, c \in Contracts : AddDoc(k, c) \/ DeleteDoc(k, c)
    BY <2>2 DEF AddDoc, DeleteDoc, Change
  <2> QED
    BY <2>1, <2>2 DEF Outside
<1>4. seen' \subseteq {"event", "delete", "code"}
  BY <1>0 DEF TypeOK
<1>1. claim' \in [Kinds -> [Tokens -> Claim]]
  BY DEF Outside, SetMetadata, MinerEventByAddr, AddDoc, DeleteDoc, TypeOK
<1>2. whitelist' \in [Tokens -> Entry \cup {Nil}]
  <2>1. CASE \E k \in Kinds, t \in Tokens : MinerEventByAddr(k, t)
    <3>1. PICK k \in Kinds, t \in Tokens : MinerEventByAddr(k, t)
      BY <2>1
    <3>2. whitelist' = [whitelist EXCEPT ![t] = [type |-> k, contract |-> Nil]]
      BY <3>1 DEF MinerEventByAddr
    <3>3. [type |-> k, contract |-> Nil] \in Entry
      BY DEF Entry
    <3> QED
      BY <3>2, <3>3 DEF TypeOK
  <2>2. CASE whitelist' = whitelist
    BY <2>2 DEF TypeOK
  <2> QED
    BY <2>1, <2>2 DEF Outside, SetMetadata, AddDoc, DeleteDoc
<1>3. docs' \in [Kinds -> [Contracts -> Document \cup {Nil}]]
  <2>1. ASSUME NEW k \in Kinds, NEW c \in Contracts, NEW d \in Document \cup {Nil},
               docs' = [docs EXCEPT ![k][c] = d]
        PROVE  docs' \in [Kinds -> [Contracts -> Document \cup {Nil}]]
    BY <2>1 DEF TypeOK
  <2>2. ASSUME docs' = docs PROVE docs' \in [Kinds -> [Contracts -> Document \cup {Nil}]]
    BY <2>2 DEF TypeOK
  <2> QED
    BY <2>1, <2>2, NilIsNone DEF Outside, SetMetadata, MinerEventByAddr, AddDoc, DeleteDoc
<1>5. rounds' \in 0..2
  BY <1>0
<1>6. stable' \in BOOLEAN
  BY <1>0
<1> QED
  BY <1>0, <1>1, <1>2, <1>3, <1>4, <1>5, <1>6 DEF TypeOK

LEMMA WhitelistTypesRefresh ==
    ASSUME TypeOK, RefreshInv, NEW t \in Tokens, Refresh(t) \/ RefreshFailed(t)
    PROVE  TypeOK'
<1>1. PICK m \in Claim :
          /\ Looked(found[t], t, m)
          /\ \/ m = claim[found[t].type][t] /\ stable' = stable /\ rounds' = rounds
             \/ stable' = FALSE /\ rounds' = 0
  BY RefreshLooks
<1>2. /\ found[t] \in Entry /\ pending' = pending \ {t}
      /\ UNCHANGED <<claim, whitelist, pc, found>>
  BY RefreshLooks
<1>3. mapWhitelist' \in [Tokens -> Entry \cup {Nil}]
  <2>1. [type |-> found[t].type, contract |-> Answered(found[t], m)] \in Entry
    BY <1>2, AnsweredEntry
  <2> QED
    BY <1>1, <2>1 DEF Looked, TypeOK
<1>4. rounds' \in 0..2
  BY <1>1 DEF TypeOK
<1>7. stable' \in BOOLEAN
  BY <1>1 DEF TypeOK
<1>6. seen' \subseteq {"event", "delete", "code"}
  <2>1. seen' = seen \/ seen' = seen \cup {"code"}
    BY <1>1 DEF Looked
  <2> QED
    BY <2>1 DEF TypeOK
<1>5. docs' \in [Kinds -> [Contracts -> Document \cup {Nil}]]
  BY <1>1 DEF Looked
<1> QED
  BY <1>2, <1>3, <1>4, <1>5, <1>6, <1>7 DEF TypeOK

LEMMA WhitelistTypes == TypeOK /\ RefreshInv /\ [Next]_vars => TypeOK'
<1> SUFFICES ASSUME TypeOK, RefreshInv, [Next]_vars PROVE TypeOK'
  OBVIOUS
<1>1. CASE UNCHANGED vars
  BY <1>1 DEF vars, TypeOK
<1>2. CASE ScrollWhitelist
  BY <1>2, NilIsNone DEF ScrollWhitelist, TypeOK
<1>3. CASE \E t \in Tokens : WriteBack(t)
  <2>1. PICK t \in Tokens : WriteBack(t)
    BY <1>3
  <2>2. mapWhitelist[t] \in Entry \cup {Nil}
    BY DEF TypeOK
  <2>3. /\ whitelist' = [whitelist EXCEPT ![t] = mapWhitelist[t]]
        /\ mapWhitelist' = [mapWhitelist EXCEPT ![t] = Nil]
        /\ UNCHANGED <<claim, docs, pc, found, pending, rounds, stable, seen>>
    BY <2>1 DEF WriteBack
  <2> QED
    BY <2>2, <2>3 DEF TypeOK
<1>4. CASE EndRefresh
  <2>1. rounds' \in 0..2
    BY <1>4 DEF EndRefresh, TypeOK
  <2>2. /\ pc' = "idle" /\ found' = Empty
        /\ UNCHANGED <<claim, whitelist, docs, pending, mapWhitelist, stable, seen>>
    BY <1>4 DEF EndRefresh
  <2> QED
    BY <2>1, <2>2, NilIsNone DEF TypeOK
<1>5. CASE Restart
  <2>1. /\ whitelist' = [t \in Tokens |-> Registered(t)]
        /\ pc' = "idle" /\ found' = Empty /\ pending' = {} /\ mapWhitelist' = Empty
        /\ rounds' = 0 /\ stable' = FALSE /\ UNCHANGED <<claim, docs, seen>>
    BY <1>5 DEF Restart
  <2>2. whitelist' \in [Tokens -> Entry \cup {Nil}]
    BY <2>1, RegisteredEntry
  <2>3. rounds' \in 0..2
    BY <2>1
  <2>4. stable' \in BOOLEAN
    BY <2>1
  <2> QED
    BY <2>1, <2>2, <2>3, <2>4, NilIsNone DEF TypeOK
<1> QED
  BY <1>1, <1>2, <1>3, <1>4, <1>5, WhitelistTypesOutside, WhitelistTypesRefresh
  DEF Next, RefreshStep, Outside

-----------------------------------------------------------------------------
(* The refresh.                                                             *)
LEMMA RefreshInit == Init => RefreshInv
BY DEF Init, RefreshInv

LEMMA RefreshNext == TypeOK /\ RefreshInv /\ [Next]_vars => RefreshInv'
<1> SUFFICES ASSUME TypeOK, RefreshInv, [Next]_vars PROVE RefreshInv'
  OBVIOUS
<1>1. CASE UNCHANGED vars
  BY <1>1 DEF vars, RefreshInv
<1>2. CASE ScrollWhitelist
  BY <1>2, NilIsNone DEF ScrollWhitelist, RefreshInv
<1>3. ASSUME NEW t \in Tokens, WriteBack(t) PROVE RefreshInv'
  <2>1. /\ pc' = "scroll" /\ pending' = {} /\ UNCHANGED <<rounds, stable>>
        /\ mapWhitelist[t] # Nil
        /\ whitelist' = [whitelist EXCEPT ![t] = mapWhitelist[t]]
        /\ mapWhitelist' = [mapWhitelist EXCEPT ![t] = Nil]
    BY <1>3 DEF WriteBack
  <2>2. \A s \in Tokens : whitelist'[s] = Nil => mapWhitelist'[s] = Nil
    BY <2>1 DEF RefreshInv, TypeOK
  <2> QED
    BY <2>1, <2>2 DEF RefreshInv
<1>4. CASE EndRefresh
  BY <1>4 DEF EndRefresh, RefreshInv, TypeOK
<1>5. CASE Restart
  BY <1>5, NilIsNone DEF Restart, RefreshInv
<1>6. ASSUME NEW t \in Tokens, Refresh(t) \/ RefreshFailed(t) PROVE RefreshInv'
  <2>1. PICK m \in Claim :
            /\ Looked(found[t], t, m)
            /\ \/ m = claim[found[t].type][t] /\ stable' = stable /\ rounds' = rounds
               \/ stable' = FALSE /\ rounds' = 0
    BY <1>6, RefreshLooks
  <2>2. /\ t \in pending /\ pc = "scroll" /\ pending' = pending \ {t}
        /\ UNCHANGED <<claim, whitelist, pc, found>>
    BY <1>6, RefreshLooks
  <2>3. \A s \in Tokens : s # t => mapWhitelist'[s] = mapWhitelist[s]
    BY <2>1 DEF Looked, TypeOK
  <2>4. seen \subseteq seen'
    BY <2>1 DEF Looked
  <2>5. pending \subseteq Tokens /\ whitelist[t] # Nil
    BY <2>2 DEF TypeOK, RefreshInv
  <2>6. \A s \in pending' : /\ found'[s] # Nil /\ whitelist'[s] # Nil /\ mapWhitelist'[s] = Nil
                            /\ stable' \/ "event" \notin seen' => whitelist'[s] = found'[s]
    BY <2>1, <2>2, <2>3, <2>4, <2>5 DEF RefreshInv
  <2>7. \A s \in Tokens : whitelist'[s] = Nil => mapWhitelist'[s] = Nil
    BY <2>2, <2>3, <2>5 DEF RefreshInv
  <2>8. rounds' > 0 => stable'
    BY <2>1 DEF RefreshInv
  <2> QED
    BY <2>2, <2>6, <2>7, <2>8 DEF RefreshInv
<1>7. ASSUME NEW k \in Kinds, NEW t \in Tokens, MinerEventByAddr(k, t) PROVE RefreshInv'
  <2>1. /\ whitelist' = [whitelist EXCEPT ![t] = [type |-> k, contract |-> Nil]]
        /\ seen' = IF whitelist[t] = Nil THEN seen ELSE seen \cup {"event"}
        /\ stable' = FALSE /\ rounds' = 0
        /\ UNCHANGED <<pc, found, pending, mapWhitelist>>
    BY <1>7 DEF MinerEventByAddr, Change
  <2>2. [type |-> k, contract |-> Nil] # Nil /\ pending \subseteq Tokens
    BY Entries DEF TypeOK
  <2>3. /\ whitelist'[t] # Nil
        /\ \A s \in Tokens : s # t => whitelist'[s] = whitelist[s]
    BY <2>1, <2>2 DEF TypeOK
  <2>4. "event" \notin seen' => t \notin pending /\ "event" \notin seen
    BY <2>1 DEF RefreshInv
  <2> QED
    BY <2>1, <2>2, <2>3, <2>4 DEF RefreshInv
<1>8. CASE \/ \E k \in Kinds, t \in Tokens : SetMetadata(k, t)
           \/ \E k \in Kinds, c \in Contracts : AddDoc(k, c) \/ DeleteDoc(k, c)
  <2>1. /\ stable' = FALSE /\ rounds' = 0 /\ seen \subseteq seen'
        /\ UNCHANGED <<whitelist, pc, found, pending, mapWhitelist>>
    BY <1>8 DEF SetMetadata, AddDoc, DeleteDoc, Change
  <2> QED
    BY <2>1 DEF RefreshInv
<1> QED
  BY <1>1, <1>2, <1>3, <1>4, <1>5, <1>6, <1>7, <1>8 DEF Next, RefreshStep

-----------------------------------------------------------------------------
(* What is remembered has its document.                                     *)

\* No document is deleted, and a document that is there stays.
DocsStay == \A k \in Kinds, c \in Contracts : docs[k][c] # Nil => docs'[k][c] # Nil

LEMMA LookedDoc ==
    ASSUME NEW e \in Entry, NEW t \in Tokens, NEW m \in Claim, Looked(e, t, m),
           NEW k \in Kinds, NEW c \in Contracts
    PROVE  \/ docs'[k][c] = docs[k][c]
           \/ /\ docs[k][c] # Nil /\ k = e.type /\ c = e.contract /\ Leaves(e, m)
              /\ docs'[k][c] = NewDoc
           \/ /\ docs[k][c] # Nil /\ k = e.type /\ c = m.contract /\ ~Stuck(e, m)
              /\ docs'[k][c] # Nil /\ docs'[k][c].token = t
              /\ (k = "contract" /\ "code" \notin seen' /\ docs'[k][c].codeUrl => docs'[k][c].verified)
<1>1. ASSUME NewMark(t, k, c, m)
      PROVE  /\ docs'[k][c] # Nil /\ docs'[k][c].token = t
             /\ (k = "contract" /\ "code" \notin seen' /\ docs'[k][c].codeUrl => docs'[k][c].verified)
  <2>1. PICK code \in BOOLEAN :
            /\ docs'[k][c] = [token |-> t, codeUrl |-> m.codeUrl, verified |-> code]
            /\ k = "contract" /\ m.codeUrl /\ "code" \notin seen' => code
    BY <1>1 DEF NewMark
  <2>2. docs'[k][c] \in Document
    BY <2>1 DEF Claim, Document
  <2>3. docs'[k][c].token = t /\ docs'[k][c].codeUrl = m.codeUrl /\ docs'[k][c].verified = code
    BY <2>1
  <2> QED
    BY <2>1, <2>2, <2>3, NilIsNone
<1> QED
  BY <1>1 DEF Looked

LEMMA LookedStays ==
    ASSUME NEW e \in Entry, NEW t \in Tokens, NEW m \in Claim, Looked(e, t, m)
    PROVE  /\ DocsStay
           /\ \A k \in Kinds, c \in Contracts : docs[k][c] = Nil => docs'[k][c] = Nil
BY LookedDoc, NilIsNone DEF DocsStay

LEMMA KeptInit == Init => KeptInv
BY NilIsNone DEF Init, KeptInv, HasDoc

LEMMA KeptStays ==
    ASSUME NEW e \in Entry \cup {Nil}, HasDoc(e), DocsStay,
           NEW f, f = e
    PROVE  f # Nil /\ f.contract # Nil => docs'[f.type][f.contract] # Nil
<1>1. SUFFICES ASSUME e # Nil, e.contract # Nil PROVE docs'[e.type][e.contract] # Nil
  OBVIOUS
<1>2. e.type \in Kinds /\ e.contract \in Contracts
  BY <1>1, Entries
<1> QED
  BY <1>1, <1>2 DEF HasDoc, DocsStay

LEMMA KeptNext == TypeOK /\ RefreshInv /\ KeptInv /\ [Next]_vars => KeptInv'
<1> SUFFICES ASSUME TypeOK, RefreshInv, KeptInv, [Next]_vars, "delete" \notin seen',
                    NEW s \in Tokens
             PROVE  HasDoc(whitelist[s])' /\ HasDoc(found[s])' /\ HasDoc(mapWhitelist[s])'
  BY DEF KeptInv
<1>0. seen \subseteq seen'
  BY SeenGrows
<1>1. HasDoc(whitelist[s]) /\ HasDoc(found[s]) /\ HasDoc(mapWhitelist[s])
  BY <1>0 DEF KeptInv
<1>2. /\ whitelist[s] \in Entry \cup {Nil} /\ found[s] \in Entry \cup {Nil}
      /\ mapWhitelist[s] \in Entry \cup {Nil}
  BY DEF TypeOK
<1>3. Empty[s] = Nil
  BY NilIsNone
<1> DEFINE Good(f) == f # Nil /\ f.contract # Nil => docs'[f.type][f.contract] # Nil
<1>4. ASSUME DocsStay PROVE Good(whitelist[s]) /\ Good(found[s]) /\ Good(mapWhitelist[s])
  BY <1>1, <1>2, <1>4, KeptStays
<1>5. Good(Nil)
  OBVIOUS
<1>6. SUFFICES Good(whitelist'[s]) /\ Good(found'[s]) /\ Good(mapWhitelist'[s])
  BY DEF HasDoc
<1>7. ASSUME docs' = docs PROVE DocsStay
  BY <1>7 DEF DocsStay
<1> HIDE DEF Good
<1>11. CASE UNCHANGED vars
  BY <1>4, <1>7, <1>11 DEF vars
<1>12. CASE ScrollWhitelist
  BY <1>3, <1>4, <1>5, <1>7, <1>12 DEF ScrollWhitelist
<1>13. ASSUME NEW t \in Tokens, WriteBack(t)
       PROVE  Good(whitelist'[s]) /\ Good(found'[s]) /\ Good(mapWhitelist'[s])
  <2>1. /\ whitelist'[s] = IF s = t THEN mapWhitelist[s] ELSE whitelist[s]
        /\ mapWhitelist'[s] = IF s = t THEN Nil ELSE mapWhitelist[s]
        /\ docs' = docs /\ found' = found
    BY <1>13 DEF WriteBack, TypeOK
  <2> QED
    BY <1>4, <1>5, <1>7, <2>1
<1>14. CASE EndRefresh
  BY <1>3, <1>4, <1>5, <1>7, <1>14 DEF EndRefresh
<1>15. CASE Restart
  <2>1. /\ whitelist'[s] = Registered(s) /\ found'[s] = Nil /\ mapWhitelist'[s] = Nil
        /\ docs' = docs
    BY <1>3, <1>15 DEF Restart
  <2>2. Good(Registered(s))
    BY <1>4, <1>7, <2>1, RegisteredEntry DEF Good
  <2> QED
    BY <1>5, <2>1, <2>2
<1>16. ASSUME NEW t \in Tokens, Refresh(t) \/ RefreshFailed(t)
       PROVE  Good(whitelist'[s]) /\ Good(found'[s]) /\ Good(mapWhitelist'[s])
  <2> DEFINE e == found[t]
  <2>1. PICK m \in Claim : Looked(e, t, m)
    BY <1>16, RefreshLooks
  <2>2. e \in Entry /\ UNCHANGED <<whitelist, found>> /\ t \in pending /\ mapWhitelist[t] = Nil
    BY <1>16, RefreshLooks
  <2>3. DocsStay
    BY <2>1, <2>2, LookedStays
  <2>4. Good(mapWhitelist'[s])
    <3>1. \/ mapWhitelist'[s] = mapWhitelist[s]
          \/ /\ Answered(e, m) # e.contract
             /\ mapWhitelist'[s] = [type |-> e.type, contract |-> Answered(e, m)]
      BY <2>1 DEF Looked, TypeOK
    <3>2. ASSUME Answered(e, m) # e.contract
          PROVE  Good([type |-> e.type, contract |-> Answered(e, m)])
      <4>1. \/ Answered(e, m) = Nil
            \/ m.contract \in Contracts /\ Answered(e, m) = m.contract /\ docs[e.type][m.contract] # Nil
        BY <3>2 DEF Answered, Claim
      <4>2. e.type \in Kinds
        BY <2>2, Entries
      <4> QED
        BY <2>3, <4>1, <4>2 DEF Good, DocsStay
    <3> QED
      BY <1>4, <2>3, <3>1, <3>2
  <2> QED
    BY <1>4, <2>2, <2>3, <2>4
<1>17. ASSUME NEW k \in Kinds, NEW t \in Tokens, MinerEventByAddr(k, t)
       PROVE  Good(whitelist'[s]) /\ Good(found'[s]) /\ Good(mapWhitelist'[s])
  <2>1. /\ whitelist'[s] = IF s = t THEN [type |-> k, contract |-> Nil] ELSE whitelist[s]
        /\ docs' = docs /\ found' = found /\ mapWhitelist' = mapWhitelist
    BY <1>17 DEF MinerEventByAddr, TypeOK
  <2>2. Good([type |-> k, contract |-> Nil])
    BY DEF Good
  <2> QED
    BY <1>4, <1>7, <2>1, <2>2
<1>18. CASE \/ \E k \in Kinds, t \in Tokens : SetMetadata(k, t)
            \/ \E k \in Kinds, c \in Contracts : AddDoc(k, c)
  <2>1. DocsStay
    BY <1>18, NilIsNone DEF SetMetadata, AddDoc, DocsStay, TypeOK
  <2>2. UNCHANGED <<whitelist, found, mapWhitelist>>
    BY <1>18 DEF SetMetadata, AddDoc
  <2> QED
    BY <1>4, <2>1, <2>2
<1>19. \A k \in Kinds, c \in Contracts : ~DeleteDoc(k, c)
  BY DEF DeleteDoc
<1> QED
  BY <1>11, <1>12, <1>13, <1>14, <1>15, <1>16, <1>17, <1>18, <1>19 DEF Next, RefreshStep

-----------------------------------------------------------------------------
(* The marks.                                                               *)
LEMMA MarksInit == Init => MarksInv
<1> SUFFICES ASSUME Init, NEW t \in Tokens, NEW k \in Kinds, NEW c \in Contracts PROVE ~Marks(t, k, c)
  BY DEF MarksInv
<1>1. docs[k][c] \in {Nil, NewDoc} /\ t # Nil
  BY NilIsNone DEF Init
<1> QED
  BY <1>1 DEF Marks, NewDoc

\* What MarksInv says of one token and one document.
MarkGood(t, k, c) ==
    /\ Remembered(t) = [type |-> k, contract |-> c]
    /\ stable /\ t \notin pending => claim[k][t].contract = c

(* A token that is looked at leaves the document it has marked, or keeps    *)
(* it, and then has marked the one it claims only.                          *)
LEMMA MarksLooked ==
    ASSUME TypeOK, RefreshInv, MarksInv, "event" \notin seen',
           NEW t \in Tokens, Refresh(t) \/ RefreshFailed(t),
           NEW s \in Tokens, NEW k \in Kinds, NEW c \in Contracts, Marks(s, k, c)'
    PROVE  MarkGood(s, k, c)'
<1> DEFINE e == found[t]
<1>1. PICK m \in Claim :
          /\ Looked(e, t, m)
          /\ \/ m = claim[e.type][t] /\ stable' = stable /\ rounds' = rounds
             \/ stable' = FALSE /\ rounds' = 0
  BY RefreshLooks
<1>2. /\ t \in pending /\ e \in Entry /\ mapWhitelist[t] = Nil /\ pending' = pending \ {t}
      /\ UNCHANGED <<claim, whitelist, pc, found>>
  BY RefreshLooks
<1>3. "event" \notin seen /\ whitelist[t] = e /\ e # Nil
  <2>1. "event" \notin seen
    BY <1>1 DEF Looked
  <2> QED
    BY <1>2, <2>1, NilIsNone DEF RefreshInv
<1>4. /\ e.type \in Kinds /\ e.contract \in Contracts \cup {Nil}
      /\ e = [type |-> e.type, contract |-> e.contract]
  BY <1>2, Entries
<1>5. docs'[k][c] # Nil /\ docs'[k][c].token = s
  BY DEF Marks
<1>6. NewDoc.token = Nil /\ s # Nil
  BY NilIsNone DEF NewDoc
<1>7. \A r \in Tokens, j \in Kinds, d \in Contracts : Marks(r, j, d) => MarkGood(r, j, d)
  BY <1>3 DEF MarksInv, MarkGood
<1>8. CASE s # t
  <2>1. docs'[k][c] = docs[k][c]
    BY <1>1, <1>2, <1>5, <1>6, <1>8, LookedDoc
  <2>2. MarkGood(s, k, c)
    BY <1>5, <1>7, <2>1 DEF Marks
  <2>3. mapWhitelist'[s] = mapWhitelist[s]
    BY <1>1, <1>8 DEF Looked, TypeOK
  <2>4. stable' => stable
    BY <1>1
  <2> QED
    BY <1>2, <1>8, <2>2, <2>3, <2>4 DEF MarkGood, Remembered
<1>9. CASE s = t
  <2>1. ASSUME Marks(t, k, c) PROVE k = e.type /\ c = e.contract
    <3>1. Remembered(t) = [type |-> k, contract |-> c]
      BY <1>7, <2>1 DEF MarkGood
    <3>2. Remembered(t) = e
      BY <1>2, <1>3 DEF Remembered
    <3> QED
      BY <3>1, <3>2
  <2>2. k = e.type /\ c = m.contract /\ ~Stuck(e, m) /\ docs[k][c] # Nil
    <3>1. CASE docs'[k][c] = docs[k][c]
      <4>1. Marks(t, k, c)
        BY <1>5, <1>9, <3>1 DEF Marks
      <4>2. k = e.type /\ c = e.contract /\ docs[k][c] # Nil
        BY <2>1, <4>1 DEF Marks
      <4>3. ~Stuck(e, m)
        BY <4>2 DEF Stuck
      <4>4. ~Leaves(e, m)
        <5>1. ASSUME Leaves(e, m) PROVE FALSE
          <6>1. docs'[k][c] = NewDoc
            BY <1>1, <4>2, <4>3, <5>1 DEF Looked
          <6> QED
            BY <1>5, <1>6, <6>1
        <5> QED
          BY <5>1
      <4>5. m.contract = c
        BY <4>2, <4>4, NilIsNone DEF Leaves
      <4> QED
        BY <4>2, <4>3, <4>5
    <3>2. docs'[k][c] # NewDoc
      BY <1>5, <1>6
    <3> QED
      BY <1>1, <3>1, <3>2 DEF Looked
  <2>3. Answered(e, m) = c
    BY <2>2, NilIsNone DEF Answered
  <2>4. mapWhitelist' = IF c = e.contract THEN mapWhitelist
                        ELSE [mapWhitelist EXCEPT ![t] = [type |-> k, contract |-> c]]
    BY <1>1, <2>2, <2>3 DEF Looked
  <2>5. Remembered(t)' = [type |-> k, contract |-> c]
    <3>1. CASE c = e.contract
      BY <1>2, <1>3, <1>4, <2>2, <2>4, <3>1 DEF Remembered
    <3>2. CASE c # e.contract
      <4>1. mapWhitelist'[t] = [type |-> k, contract |-> c]
        BY <2>4, <3>2 DEF TypeOK
      <4> QED
        BY <4>1, Entries DEF Remembered
    <3> QED
      BY <3>1, <3>2
  <2>6. stable' => claim'[k][t].contract = c
    BY <1>1, <1>2, <2>2
  <2> QED
    BY <1>9, <2>5, <2>6 DEF MarkGood
<1> QED
  BY <1>8, <1>9

LEMMA MarksNext == TypeOK /\ RefreshInv /\ MarksInv /\ [Next]_vars => MarksInv'
<1> SUFFICES ASSUME TypeOK, RefreshInv, MarksInv, [Next]_vars, "event" \notin seen',
                    NEW s \in Tokens, NEW k \in Kinds, NEW c \in Contracts, Marks(s, k, c)'
             PROVE  MarkGood(s, k, c)'
  BY DEF MarksInv, MarkGood
<1>0. seen \subseteq seen'
  BY SeenGrows
<1>1. \A r \in Tokens, j \in Kinds, d \in Contracts : Marks(r, j, d) => MarkGood(r, j, d)
  BY <1>0 DEF MarksInv, MarkGood
<1>2. ASSUME docs' = docs PROVE MarkGood(s, k, c)
  BY <1>1, <1>2 DEF Marks
<1>3. ASSUME MarkGood(s, k, c), UNCHANGED <<whitelist, mapWhitelist>>,
             stable' = FALSE \/ UNCHANGED <<claim, pending, stable>>
      PROVE  MarkGood(s, k, c)'
  BY <1>3 DEF MarkGood, Remembered
<1>4. [type |-> k, contract |-> c] # Nil
  BY Entries
<1>11. CASE UNCHANGED vars
  BY <1>2, <1>3, <1>11 DEF vars
<1>12. CASE ScrollWhitelist
  <2>1. /\ docs' = docs /\ whitelist' = whitelist /\ mapWhitelist' = Empty /\ mapWhitelist = Empty
        /\ pending' = {t \in Tokens : whitelist[t] # Nil}
    BY <1>12 DEF ScrollWhitelist, RefreshInv
  <2>2. MarkGood(s, k, c)
    BY <1>2, <2>1
  <2>3. Remembered(s) = whitelist[s]
    BY <2>1, NilIsNone DEF Remembered
  <2>4. s \in pending'
    BY <1>4, <2>1, <2>2, <2>3 DEF MarkGood
  <2> QED
    BY <2>1, <2>2, <2>4 DEF MarkGood, Remembered
<1>13. ASSUME NEW t \in Tokens, WriteBack(t) PROVE MarkGood(s, k, c)'
  <2>1. /\ docs' = docs /\ UNCHANGED <<claim, pending, stable>> /\ mapWhitelist[t] # Nil
        /\ whitelist'[s] = IF s = t THEN mapWhitelist[t] ELSE whitelist[s]
        /\ mapWhitelist'[s] = IF s = t THEN Nil ELSE mapWhitelist[s]
    BY <1>13 DEF WriteBack, TypeOK
  <2>2. Remembered(s)' = Remembered(s)
    BY <2>1 DEF Remembered
  <2> QED
    BY <1>2, <2>1, <2>2 DEF MarkGood
<1>14. CASE EndRefresh
  <2>1. docs' = docs /\ UNCHANGED <<whitelist, mapWhitelist, claim, pending, stable>>
    BY <1>14 DEF EndRefresh
  <2> QED
    BY <1>2, <1>3, <2>1
<1>15. CASE Restart
  <2>1. /\ docs' = docs /\ whitelist' = [t \in Tokens |-> Registered(t)]
        /\ mapWhitelist' = Empty /\ stable' = FALSE
    BY <1>15 DEF Restart
  <2>2. Marks(s, k, c)
    BY <2>1 DEF Marks
  <2>3. \A j \in Kinds, d \in Contracts : Marks(s, j, d) => j = k /\ d = c
    <3> SUFFICES ASSUME NEW j \in Kinds, NEW d \in Contracts, Marks(s, j, d) PROVE j = k /\ d = c
      OBVIOUS
    <3>1. [type |-> j, contract |-> d] = [type |-> k, contract |-> c]
      BY <1>1, <2>2 DEF MarkGood
    <3> QED
      BY <3>1
  <2>4. VerifiedBy(k, s) = {c}
    BY <2>2, <2>3 DEF VerifiedBy, Marks
  <2>5. \A j : j # k => VerifiedBy(j, s) = {}
    BY <2>3 DEF VerifiedBy, Marks
  <2>6. Max({c}) = c
    <3>1. Max({c}) \in {c}
      BY MaxContract
    <3> QED
      BY <3>1
  <2>7. k \in {"token", "contract"}
    BY WhitelistAssumption
  <2>8. Registered(s) = [type |-> k, contract |-> c]
    BY <2>4, <2>5, <2>6, <2>7 DEF Registered
  <2>9. mapWhitelist'[s] = Nil /\ whitelist'[s] = [type |-> k, contract |-> c]
    BY <2>1, <2>8, NilIsNone
  <2> QED
    BY <2>1, <2>9 DEF MarkGood, Remembered
<1>16. CASE \E t \in Tokens : Refresh(t) \/ RefreshFailed(t)
  BY <1>16, MarksLooked
<1>17. ASSUME NEW j \in Kinds, NEW t \in Tokens, MinerEventByAddr(j, t) PROVE MarkGood(s, k, c)'
  <2>1. /\ docs' = docs /\ mapWhitelist' = mapWhitelist /\ stable' = FALSE
        /\ whitelist[t] = Nil
        /\ s # t => whitelist'[s] = whitelist[s]
    BY <1>17 DEF MinerEventByAddr, Change, TypeOK
  <2>2. MarkGood(s, k, c)
    BY <1>2, <2>1
  <2>3. Remembered(t) = Nil
    BY <2>1 DEF RefreshInv, Remembered
  <2>4. s # t
    BY <1>4, <2>2, <2>3 DEF MarkGood
  <2> QED
    BY <2>1, <2>2, <2>4 DEF MarkGood, Remembered
<1>18. CASE \E j \in Kinds, t \in Tokens : SetMetadata(j, t)
  <2>1. docs' = docs /\ UNCHANGED <<whitelist, mapWhitelist>> /\ stable' = FALSE
    BY <1>18 DEF SetMetadata, Change
  <2> QED
    BY <1>2, <1>3, <2>1
<1>19. ASSUME NEW j \in Kinds, NEW d \in Contracts, AddDoc(j, d) \/ DeleteDoc(j, d)
       PROVE  MarkGood(s, k, c)'
  <2>1. UNCHANGED <<whitelist, mapWhitelist>> /\ stable' = FALSE
    BY <1>19 DEF AddDoc, DeleteDoc, Change
  <2>2. docs'[k][c] = docs[k][c] \/ docs'[k][c] \in {Nil, NewDoc}
    <3>1. docs' = [docs EXCEPT ![j][d] = NewDoc] \/ docs' = [docs EXCEPT ![j][d] = Nil]
      BY <1>19 DEF AddDoc, DeleteDoc
    <3>2. docs \in [Kinds -> [Contracts -> Document \cup {Nil}]]
      BY DEF TypeOK
    <3> QED
      BY <3>1, <3>2
  <2>3. NewDoc.token # s
    BY NilIsNone DEF NewDoc
  <2>4. Marks(s, k, c)
    BY <2>2, <2>3 DEF Marks
  <2> QED
    BY <1>1, <1>3, <2>1, <2>4
<1> QED
  BY <1>11, <1>12, <1>13, <1>14, <1>15, <1>16, <1>17, <1>18, <1>19 DEF Next, RefreshStep

-----------------------------------------------------------------------------
(* Code urls.                                                               *)
LEMMA UrlInit == Init => UrlInv
<1> SUFFICES ASSUME Init, NEW k \in Kinds, NEW c \in Contracts, docs[k][c] # Nil
             PROVE  ~docs[k][c].codeUrl
  BY DEF UrlInv
<1>1. docs[k][c] = NewDoc
  BY DEF Init
<1> QED
  BY <1>1 DEF NewDoc

LEMMA UrlNext == TypeOK /\ RefreshInv /\ UrlInv /\ [Next]_vars => UrlInv'
<1> DEFINE Url(k, c) ==
        docs[k][c] # Nil =>
            /\ docs[k][c].codeUrl => docs[k][c].token # Nil
            /\ k = "contract" /\ "code" \notin seen => (docs[k][c].codeUrl => docs[k][c].verified)
<1> SUFFICES ASSUME TypeOK, RefreshInv, UrlInv, [Next]_vars, NEW k \in Kinds, NEW c \in Contracts
             PROVE  Url(k, c)'
  BY DEF UrlInv
<1>0. Url(k, c)
  BY DEF UrlInv
<1>1. ASSUME docs'[k][c] = docs[k][c], seen \subseteq seen' PROVE Url(k, c)'
  BY <1>0, <1>1
<1>2. ASSUME docs'[k][c] \in {Nil, NewDoc} PROVE Url(k, c)'
  BY <1>2 DEF NewDoc
<1>3. ASSUME NEW t \in Tokens, Refresh(t) \/ RefreshFailed(t) PROVE Url(k, c)'
  <2>1. PICK m \in Claim : Looked(found[t], t, m)
    BY <1>3, RefreshLooks
  <2>2. found[t] \in Entry /\ seen \subseteq seen'
    BY <1>3, <2>1, RefreshLooks DEF Looked
  <2>3. t # Nil
    BY NilIsNone
  <2>4. \/ docs'[k][c] = docs[k][c] \/ docs'[k][c] = NewDoc
        \/ /\ docs'[k][c].token = t
           /\ (k = "contract" /\ "code" \notin seen' /\ docs'[k][c].codeUrl => docs'[k][c].verified)
    BY <2>1, <2>2, LookedDoc
  <2> QED
    BY <1>1, <1>2, <2>2, <2>3, <2>4
<1>4. CASE \E j \in Kinds, d \in Contracts : AddDoc(j, d) \/ DeleteDoc(j, d)
  <2>1. docs'[k][c] = docs[k][c] \/ docs'[k][c] \in {Nil, NewDoc}
    BY <1>4 DEF AddDoc, DeleteDoc, TypeOK
  <2>2. seen \subseteq seen'
    BY <1>4 DEF AddDoc, DeleteDoc
  <2> QED
    BY <1>1, <1>2, <2>1, <2>2
<1>5. CASE \/ \E j \in Kinds, t \in Tokens : SetMetadata(j, t) \/ MinerEventByAddr(j, t)
           \/ \E t \in Tokens : WriteBack(t)
           \/ ScrollWhitelist \/ EndRefresh \/ Restart \/ UNCHANGED vars
  <2>1. docs' = docs /\ seen \subseteq seen'
    BY <1>5 DEF SetMetadata, MinerEventByAddr, WriteBack, ScrollWhitelist, EndRefresh, Restart, vars
  <2> QED
    BY <1>1, <2>1
<1> QED
  BY <1>3, <1>4, <1>5 DEF Next, RefreshStep

-----------------------------------------------------------------------------
(* What two quiet refreshes settle.                                         *)
LEMMA SettledInit == Init => SettledInv /\ ClaimsInv
BY DEF Init, SettledInv, ClaimsInv

(* A change from outside and a restart end what was quiet.                  *)
LEMMA NotQuiet ==
    ASSUME Outside \/ Restart
    PROVE  stable' = FALSE /\ rounds' = 0
BY DEF Outside, Restart, SetMetadata, MinerEventByAddr, AddDoc, DeleteDoc, Change

LEMMA SettledSame ==
    ASSUME TypeOK, NEW e \in Entry, NEW t \in Tokens, claim' = claim,
           \A k \in Kinds, c \in Contracts : docs[k][c] = Nil => docs'[k][c] = Nil,
           Settled(t, e), NEW f, f = e
    PROVE  LET m == claim'[f.type][t].contract IN
           m = f.contract \/ (m # Nil /\ docs'[f.type][m] = Nil)
<1>1. e.type \in Kinds /\ claim[e.type][t].contract \in Contracts \cup {Nil}
  BY Entries DEF TypeOK, Claim
<1> QED
  BY <1>1 DEF Settled

(* The token that is looked at is settled, and when it was before, nothing  *)
(* new is remembered of it.                                                 *)
LEMMA SettledLooked ==
    ASSUME TypeOK, NEW e \in Entry, NEW t \in Tokens, HasDoc(e),
           NEW m \in Claim, m = claim[e.type][t]
    PROVE  /\ ~Stuck(e, m)
           /\ Settled(t, [type |-> e.type, contract |-> Answered(e, m)])
           /\ Settled(t, e) => Answered(e, m) = e.contract
<1>0. e.type \in Kinds /\ e.contract \in Contracts \cup {Nil} /\ m.contract \in Contracts \cup {Nil}
  BY Entries DEF Claim
<1>1. ~Stuck(e, m)
  BY NilIsNone DEF Stuck, Leaves, HasDoc
<1>2. Settled(t, [type |-> e.type, contract |-> Answered(e, m)])
  BY <1>0, <1>1 DEF Settled, Answered
<1>3. ASSUME Settled(t, e) PROVE Answered(e, m) = e.contract
  <2>1. m.contract = e.contract \/ (m.contract # Nil /\ docs[e.type][m.contract] = Nil)
    BY <1>3 DEF Settled
  <2>2. e # Nil
    BY NilIsNone
  <2> QED
    BY <1>0, <1>1, <2>1, <2>2 DEF Answered, HasDoc
<1> QED
  BY <1>1, <1>2, <1>3

LEMMA SettledNext ==
    TypeOK /\ RefreshInv /\ KeptInv /\ SettledInv /\ [Next]_vars => SettledInv'
<1> SUFFICES ASSUME TypeOK, RefreshInv, KeptInv, SettledInv, [Next]_vars,
                    stable', "delete" \notin seen'
             PROVE  /\ \A s \in Tokens \ pending' :
                          Remembered(s)' # Nil => Settled(s, Remembered(s))'
                    /\ rounds' > 0 =>
                          /\ mapWhitelist' = Empty
                          /\ \A s \in Tokens : whitelist'[s] # Nil => Settled(s, whitelist[s])'
  BY NilIsNone DEF SettledInv, Empty
<1>1. \A s \in Tokens : whitelist[s] \in Entry \cup {Nil} /\ Remembered(s) \in Entry \cup {Nil}
  BY DEF TypeOK, Remembered
<1>2. ASSUME docs' = docs, claim' = claim, UNCHANGED <<stable, seen>>
      PROVE  /\ \A s \in Tokens \ pending : Remembered(s) # Nil =>
                    Settled(s, Remembered(s))
             /\ rounds > 0 => /\ mapWhitelist = Empty
                              /\ \A s \in Tokens : whitelist[s] # Nil => Settled(s, whitelist[s])
  BY <1>2 DEF SettledInv
<1>11. CASE UNCHANGED vars
  BY <1>2, <1>11 DEF vars, Settled, Remembered
<1>12. CASE ScrollWhitelist
  <2>1. /\ UNCHANGED <<docs, claim, whitelist, rounds, seen>> /\ mapWhitelist' = Empty
        /\ pending' = {t \in Tokens : whitelist[t] # Nil}
    BY <1>12 DEF ScrollWhitelist
  <2>2. \A s \in Tokens \ pending' : Remembered(s)' = Nil
    BY <2>1, NilIsNone DEF Remembered
  <2>3. rounds > 0 => \A s \in Tokens : whitelist[s] # Nil => Settled(s, whitelist[s])
    BY <2>1 DEF RefreshInv, SettledInv
  <2>4. rounds' > 0 => \A s \in Tokens : whitelist'[s] # Nil => Settled(s, whitelist[s])'
    BY <2>1, <2>3 DEF Settled
  <2>5. \A s \in Tokens \ pending' : Remembered(s)' # Nil => Settled(s, Remembered(s))'
    BY <2>2
  <2> QED
    BY <2>1, <2>4, <2>5
<1>13. ASSUME NEW t \in Tokens, WriteBack(t)
       PROVE  /\ \A s \in Tokens \ pending' :
                    Remembered(s)' # Nil => Settled(s, Remembered(s))'
              /\ ~(rounds' > 0)
  <2>1. /\ UNCHANGED <<docs, claim, pending, rounds, seen, stable>> /\ mapWhitelist[t] # Nil
        /\ whitelist' = [whitelist EXCEPT ![t] = mapWhitelist[t]]
        /\ mapWhitelist' = [mapWhitelist EXCEPT ![t] = Nil]
    BY <1>13 DEF WriteBack
  <2>2. \A s \in Tokens : Remembered(s)' = Remembered(s)
    BY <2>1 DEF Remembered, TypeOK
  <2>3. ~(rounds > 0)
    BY <1>2, <2>1, NilIsNone
  <2> QED
    BY <1>2, <2>1, <2>2, <2>3 DEF Settled
<1>14. CASE EndRefresh
  <2>1. /\ UNCHANGED <<docs, claim, whitelist, pending, mapWhitelist, seen, stable>>
        /\ pending = {} /\ mapWhitelist = Empty
    BY <1>14 DEF EndRefresh
  <2>2. \A s \in Tokens : Remembered(s)' = whitelist[s] /\ Remembered(s) = whitelist[s]
    BY <2>1, NilIsNone DEF Remembered
  <2>3. \A s \in Tokens : whitelist[s] # Nil => Settled(s, whitelist[s])
    BY <1>2, <2>1, <2>2
  <2>4. ASSUME NEW s \in Tokens, whitelist[s] # Nil
        PROVE  Settled(s, whitelist[s])' /\ Settled(s, Remembered(s))'
    <3>1. Settled(s, whitelist[s])
      BY <2>3, <2>4
    <3>2. Settled(s, whitelist[s])'
      BY <2>1, <3>1 DEF Settled
    <3> QED
      BY <2>1, <2>2, <3>2 DEF Settled
  <2> QED
    BY <2>1, <2>2, <2>4
<1>15. ASSUME NEW t \in Tokens, Refresh(t) \/ RefreshFailed(t)
       PROVE  /\ \A s \in Tokens \ pending' :
                    Remembered(s)' # Nil => Settled(s, Remembered(s))'
              /\ rounds' > 0 =>
                    /\ mapWhitelist' = Empty
                    /\ \A s \in Tokens : whitelist'[s] # Nil => Settled(s, whitelist[s])'
  <2> DEFINE e == found[t]
  <2>1. PICK m \in Claim :
            /\ Looked(e, t, m)
            /\ m = claim[e.type][t] /\ stable' = stable /\ rounds' = rounds
    BY <1>15, RefreshLooks
  <2>2. /\ t \in pending /\ e \in Entry /\ mapWhitelist[t] = Nil /\ pending' = pending \ {t}
        /\ UNCHANGED <<claim, whitelist, pc, found>>
    BY <1>15, RefreshLooks
  <2>3. stable /\ "delete" \notin seen /\ whitelist[t] = e /\ HasDoc(e)
    <3>1. stable /\ "delete" \notin seen
      BY <2>1 DEF Looked
    <3> QED
      BY <2>2, <3>1 DEF RefreshInv, KeptInv
  <2>4. \A k \in Kinds, c \in Contracts : docs[k][c] = Nil => docs'[k][c] = Nil
    BY <2>1, <2>2, LookedStays
  <2>5. /\ \A s \in Tokens \ pending : Remembered(s) # Nil => Settled(s, Remembered(s))
        /\ rounds > 0 => /\ mapWhitelist = Empty
                         /\ \A s \in Tokens : whitelist[s] # Nil => Settled(s, whitelist[s])
    BY <2>3 DEF SettledInv
  <2>6. /\ Settled(t, [type |-> e.type, contract |-> Answered(e, m)])
        /\ Settled(t, e) => Answered(e, m) = e.contract
    BY <2>1, <2>2, <2>3, SettledLooked
  <2>7. /\ \A s \in Tokens : s # t => mapWhitelist'[s] = mapWhitelist[s]
        /\ mapWhitelist'[t] = IF Answered(e, m) = e.contract THEN Nil
                              ELSE [type |-> e.type, contract |-> Answered(e, m)]
        /\ Answered(e, m) = e.contract => mapWhitelist' = mapWhitelist
    BY <2>1, <2>2 DEF Looked, TypeOK
  <2>8. e = [type |-> e.type, contract |-> e.contract] /\ e # Nil
    BY <2>2, Entries, NilIsNone
  <2>9. /\ [type |-> e.type, contract |-> Answered(e, m)] \in Entry
        /\ [type |-> e.type, contract |-> Answered(e, m)] # Nil
    BY <2>2, AnsweredEntry, NilIsNone
  <2>10. Remembered(t)' = [type |-> e.type, contract |-> Answered(e, m)]
    BY <2>2, <2>3, <2>7, <2>8, <2>9 DEF Remembered
  <2>11. \A s \in Tokens : s # t => Remembered(s)' = Remembered(s)
    BY <2>2, <2>7 DEF Remembered
  <2>12. ASSUME NEW s \in Tokens \ pending', Remembered(s)' # Nil
         PROVE  Settled(s, Remembered(s))'
    <3>1. CASE s = t
      BY <2>2, <2>4, <2>6, <2>9, <2>10, <3>1, SettledSame DEF Settled
    <3>2. CASE s # t
      <4>1. Remembered(s) # Nil /\ Settled(s, Remembered(s)) /\ Remembered(s)' = Remembered(s)
        BY <2>2, <2>5, <2>11, <2>12, <3>2
      <4>2. Remembered(s) \in Entry
        BY <1>1, <4>1
      <4> QED
        BY <2>2, <2>4, <4>1, <4>2, SettledSame DEF Settled
    <3> QED
      BY <3>1, <3>2
  <2>13. ASSUME rounds' > 0
         PROVE  /\ mapWhitelist' = Empty
                /\ \A s \in Tokens : whitelist'[s] # Nil => Settled(s, whitelist[s])'
    <3>1. rounds > 0
      BY <2>1, <2>13
    <3>2. Settled(t, e)
      BY <2>3, <2>5, <2>8, <3>1
    <3>3. mapWhitelist' = Empty
      BY <2>5, <2>6, <2>7, <3>1, <3>2
    <3>4. ASSUME NEW s \in Tokens, whitelist'[s] # Nil PROVE Settled(s, whitelist[s])'
      <4>1. whitelist'[s] = whitelist[s] /\ whitelist[s] \in Entry /\ Settled(s, whitelist[s])
        BY <1>1, <2>2, <2>5, <3>1, <3>4
      <4> QED
        BY <2>2, <2>4, <4>1, SettledSame DEF Settled
    <3> QED
      BY <3>3, <3>4
  <2> QED
    BY <2>12, <2>13
<1> QED
  BY <1>11, <1>12, <1>13, <1>14, <1>15, NotQuiet DEF Next, RefreshStep, Outside

-----------------------------------------------------------------------------
(* What is claimed is marked.                                               *)
\* What ClaimsInv says of one document and one token.
ClaimGood(k, c, s) ==
    docs[k][c] # Nil /\ Claims(k, s, c) /\ ~Held(k, c) => docs[k][c].token # Nil

(* A refresh that is quiet, after another one.                              *)
LEMMA ClaimsLooked ==
    ASSUME TypeOK, RefreshInv, KeptInv, SettledInv, UrlInv, ClaimsInv, "delete" \notin seen',
           NEW t \in Tokens, Refresh(t) \/ RefreshFailed(t),
           rounds' = 2 \/ (rounds' = 1 /\ pc' = "scroll"),
           NEW k \in Kinds, NEW c \in Contracts, NEW s \in Tokens,
           s \notin pending' \/ rounds' = 2
    PROVE  ClaimGood(k, c, s)'
<1> DEFINE e == found[t]
<1>1. PICK m \in Claim :
          /\ Looked(e, t, m)
          /\ m = claim[e.type][t] /\ stable' = stable /\ rounds' = rounds
  <2>1. rounds' # 0
    OBVIOUS
  <2>2. \E m \in Claim :
            /\ Looked(e, t, m)
            /\ \/ m = claim[e.type][t] /\ stable' = stable /\ rounds' = rounds
               \/ stable' = FALSE /\ rounds' = 0
    BY RefreshLooks
  <2> QED
    BY <2>1, <2>2
<1>2. /\ t \in pending /\ e \in Entry /\ pending' = pending \ {t} /\ pc = "scroll"
      /\ UNCHANGED <<claim, whitelist, pc, found>>
  BY RefreshLooks
<1>3. stable /\ "delete" \notin seen /\ rounds > 0
  <2>1. "delete" \notin seen
    BY <1>1 DEF Looked
  <2>2. rounds > 0
    BY <1>1
  <2> QED
    BY <2>1, <2>2 DEF RefreshInv
<1>4. whitelist[t] = e /\ HasDoc(e) /\ e # Nil
  BY <1>2, <1>3, NilIsNone DEF RefreshInv, KeptInv
<1>5. Settled(t, e)
  BY <1>3, <1>4 DEF SettledInv
<1>6. ~Stuck(e, m)
  BY <1>1, <1>2, <1>4, SettledLooked
<1>7. /\ DocsStay
      /\ \A j \in Kinds, d \in Contracts : docs[j][d] = Nil => docs'[j][d] = Nil
  BY <1>1, <1>2, LookedStays
<1> SUFFICES ASSUME docs'[k][c] # Nil, Claims(k, s, c)', ~Held(k, c)' PROVE docs'[k][c].token # Nil
  BY DEF ClaimGood
<1>8. docs[k][c] # Nil /\ Claims(k, s, c) /\ t # Nil
  BY <1>2, <1>7, NilIsNone DEF Claims
<1>9. ~Held(k, c)
  <2> SUFFICES ASSUME NEW r \in Tokens, whitelist[r] # Nil, whitelist[r].type = k,
                      whitelist[r].contract = c, claim[k][r].contract \notin {c, Nil},
                      docs[k][claim[k][r].contract] = Nil
               PROVE  FALSE
    BY DEF Held
  <2>1. claim[k][r].contract \in Contracts
    BY DEF TypeOK, Claim
  <2>2. docs'[k][claim[k][r].contract] = Nil
    BY <1>7, <2>1
  <2> QED
    BY <1>2, <2>2 DEF Held
<1>10. CASE s = t
  <2>1. e.type = k /\ m.contract = c
    BY <1>1, <1>4, <1>8, <1>10 DEF Claims
  <2>2. c # Nil
    BY NilIsNone
  <2>3. \/ docs'[k][c].token = t
        \/ docs'[k][c] = docs[k][c] /\ docs[k][c].codeUrl
    BY <1>1, <1>6, <1>8, <2>1, <2>2 DEF Looked
  <2> QED
    BY <1>8, <2>3 DEF UrlInv
<1>11. CASE s # t
  <2>1. ClaimGood(k, c, s)
    BY <1>1, <1>2, <1>3, <1>11 DEF ClaimsInv, ClaimGood
  <2>2. docs[k][c].token # Nil
    BY <1>8, <1>9, <2>1 DEF ClaimGood
  <2>3. CASE k = e.type /\ c = e.contract /\ Leaves(e, m)
    <3>1. m.contract # c /\ m.contract # Nil /\ docs[k][m.contract] = Nil
      BY <1>1, <1>5, <2>3 DEF Leaves, Settled
    <3>2. Held(k, c)
      BY <1>1, <1>4, <2>3, <3>1 DEF Held
    <3> QED
      BY <1>9, <3>2
  <2> QED
    BY <1>1, <1>2, <1>8, <2>2, <2>3, LookedDoc
<1> QED
  BY <1>10, <1>11

LEMMA ClaimsNext ==
    TypeOK /\ RefreshInv /\ KeptInv /\ SettledInv /\ UrlInv /\ ClaimsInv /\ [Next]_vars => ClaimsInv'
<1> SUFFICES ASSUME TypeOK, RefreshInv, KeptInv, SettledInv, UrlInv, ClaimsInv, [Next]_vars,
                    rounds' = 2 \/ (rounds' = 1 /\ pc' = "scroll"), "delete" \notin seen',
                    NEW k \in Kinds, NEW c \in Contracts, NEW s \in Tokens,
                    s \notin pending' \/ rounds' = 2
             PROVE  ClaimGood(k, c, s)'
  BY DEF ClaimsInv, ClaimGood
<1>1. ASSUME ClaimGood(k, c, s), UNCHANGED <<docs, claim, whitelist>> PROVE ClaimGood(k, c, s)'
  BY <1>1 DEF ClaimGood, Claims, Held
<1>11. CASE UNCHANGED vars
  <2>1. ClaimGood(k, c, s)
    BY <1>11 DEF vars, ClaimsInv, ClaimGood
  <2> QED
    BY <1>1, <1>11, <2>1 DEF vars
<1>12. CASE ScrollWhitelist
  <2>1. /\ UNCHANGED <<docs, claim, whitelist, rounds, seen>>
        /\ pending' = {t \in Tokens : whitelist[t] # Nil}
    BY <1>12 DEF ScrollWhitelist
  <2>2. CASE rounds = 2
    BY <1>1, <2>1, <2>2 DEF ClaimsInv, ClaimGood
  <2>3. CASE rounds # 2
    <3>1. whitelist[s] = Nil
      BY <2>1, <2>3
    <3> QED
      BY <2>1, <3>1 DEF ClaimGood, Claims
  <2> QED
    BY <2>2, <2>3
<1>13. ASSUME NEW t \in Tokens, WriteBack(t) PROVE FALSE
  <2>1. rounds' = rounds /\ seen' = seen /\ mapWhitelist[t] # Nil /\ stable' = stable
    BY <1>13 DEF WriteBack
  <2>2. stable /\ rounds > 0 /\ "delete" \notin seen
    BY <2>1 DEF RefreshInv
  <2>3. mapWhitelist = Empty
    BY <2>2 DEF SettledInv
  <2> QED
    BY <2>1, <2>3, NilIsNone
<1>14. CASE EndRefresh
  <2>1. /\ UNCHANGED <<docs, claim, whitelist, seen>> /\ pc = "scroll" /\ pending = {}
        /\ pc' = "idle" /\ rounds' = IF stable /\ rounds < 2 THEN rounds + 1 ELSE rounds
    BY <1>14 DEF EndRefresh
  <2>2. rounds = 2 \/ rounds = 1
    BY <2>1 DEF TypeOK
  <2>3. ClaimGood(k, c, s)
    BY <2>1, <2>2 DEF ClaimsInv, ClaimGood
  <2> QED
    BY <1>1, <2>1, <2>3
<1>15. CASE \E t \in Tokens : Refresh(t) \/ RefreshFailed(t)
  BY <1>15, ClaimsLooked
<1>17. rounds' # 0
  OBVIOUS
<1>16. ~(Outside \/ Restart)
  BY <1>17, NotQuiet
<1> QED
  BY <1>11, <1>12, <1>13, <1>14, <1>15, <1>16 DEF Next, RefreshStep, Outside

-----------------------------------------------------------------------------
(* The inductive invariant of the whitelist: what is remembered of a token, *)
(* what it has marked, and what two quiet refreshes leave.                  *)
THEOREM WhitelistInvariant == Spec => []WhitelistInv
<1>1. Init => WhitelistInv
  BY WhitelistTypesInit, RefreshInit, MarksInit, KeptInit, UrlInit, SettledInit DEF WhitelistInv
<1>2. WhitelistInv /\ [Next]_vars => WhitelistInv'
  BY WhitelistTypes, RefreshNext, MarksNext, KeptNext, UrlNext, SettledNext, ClaimsNext
  DEF WhitelistInv
<1> QED
  BY <1>1, <1>2, PTL DEF Spec

(* After two refreshes without a change from outside no document is marked  *)
(* by a token that no longer claims it, unless an event has overwritten an  *)
(* entry of the whitelist (MinerTokenVerified, MinerContractVerified).      *)
THEOREM MarksNotStale == Spec => []NoStaleMark
<1>1. ASSUME WhitelistInv, Refreshed, "event" \notin seen,
             NEW k \in Kinds, NEW c \in Contracts, NEW t \in Tokens, Marks(t, k, c)
      PROVE  Claims(k, t, c)
  <2>1. /\ Remembered(t) = [type |-> k, contract |-> c]
        /\ stable /\ t \notin pending => claim[k][t].contract = c
    BY <1>1 DEF WhitelistInv, MarksInv
  <2>2. stable /\ pending = {} /\ mapWhitelist = Empty
    BY <1>1 DEF WhitelistInv, RefreshInv, Refreshed
  <2>3. whitelist[t] = [type |-> k, contract |-> c]
    BY <2>1, <2>2, NilIsNone DEF Remembered
  <2> QED
    BY <2>1, <2>2, <2>3, Entries DEF Claims
<1>2. WhitelistInv => NoStaleMark
  BY <1>1 DEF NoStaleMark, Marks
<1> QED
  BY <1>2, WhitelistInvariant, PTL

(* ... and every document that is claimed is marked, unless a rewind has    *)
(* deleted one or a token that waits for another keeps hold of it.          *)
THEOREM ClaimsAreMarked == Spec => []ClaimsMarked
<1>1. WhitelistInv => ClaimsMarked
  <2> SUFFICES ASSUME WhitelistInv, Refreshed, "delete" \notin seen,
                      NEW k \in Kinds, NEW c \in Contracts, NEW t \in Tokens,
                      docs[k][c] # Nil, Claims(k, t, c), ~Held(k, c)
               PROVE  docs[k][c].token # Nil
    BY DEF ClaimsMarked
  <2> QED
    BY DEF WhitelistInv, ClaimsInv, Refreshed
<1> QED
  BY <1>1, WhitelistInvariant, PTL

(* ... and a contract with a code url is verified, unless its code could    *)
(* once not be had (MinerContractVerified).                                 *)
THEOREM CodeIsVerified == Spec => []CodeVerified
<1>1. WhitelistInv => CodeVerified
  BY DEF WhitelistInv, UrlInv, CodeVerified
<1> QED
  BY <1>1, WhitelistInvariant, PTL
=============================================================================
