---------------------------- MODULE BrokerProofs ----------------------------
(***************************************************************************)
(* normalizeBrokerURL, for every address: whatever an operator writes for  *)
(* a broker, of any of the schemes, any host and any port, the client      *)
(* dials the broker that was meant.                                        *)
(***************************************************************************)
EXTENDS Broker, FiniteSetTheorems, SequenceTheorems, TLAPS

\* STRING, and the literals for which the provers need to be told so.
Tokens ==
  STRING \cup Separators \cup Schemes \cup {"", "1883", "8883"}
Words == Seq(Tokens)

-----------------------------------------------------------------------------
(***************************************************************************)
(* Cutting a sequence at the first occurrence of a separator.              *)
(***************************************************************************)
LEMMA SelectsFirst ==
  ASSUME NEW s \in Words, NEW e, NEW n \in 1 .. Len(s), s[n] = e,
         \A i \in 1 .. (n - 1) : s[i] # e
  PROVE  /\ Before(s, e) = SubSeq(s, 1, n - 1)
         /\ After(s, e) = SubSeq(s, n + 1, Len(s))
<1> DEFINE I == {i \in 1 .. Len(s) : s[i] = e}
<1>1. Len(s) \in Nat
  BY DEF Words
<1>2. n \in I /\ \A i \in I : n <= i
  BY <1>1
<1>3. Min(I) = n
  <2>1. \A i \in I : (\A y \in I : i <= y) => i = n
    BY <1>1, <1>2
  <2>2. QED
    BY <1>2, <2>1 DEF Min
<1>4. QED
  BY <1>2, <1>3 DEF Before, After, SelectInSeq

LEMMA Concatenated ==
  ASSUME NEW u \in Words, NEW v \in Words
  PROVE  /\ u \o v \in Words /\ Len(u \o v) = Len(u) + Len(v)
         /\ Len(u) \in Nat /\ Len(v) \in Nat
         /\ \A i \in 1 .. Len(u) : (u \o v)[i] = u[i]
         /\ \A i \in 1 .. Len(v) : (u \o v)[Len(u) + i] = v[i]
BY ConcatProperties, LenProperties DEF Words

LEMMA OneToken ==
  ASSUME NEW t \in Tokens
  PROVE  <<t>> \in Words /\ Len(<<t>>) = 1 /\ <<t>>[1] = t
BY DEF Words

\* What s is when it has the token t between u and v.
Joins(s, u, t, v) ==
  /\ s \in Words /\ Len(s) = Len(u) + 1 + Len(v)
  /\ Len(u) \in Nat /\ Len(v) \in Nat
  /\ \A i \in 1 .. Len(u) : s[i] = u[i]
  /\ s[Len(u) + 1] = t
  /\ \A i \in 1 .. Len(v) : s[Len(u) + 1 + i] = v[i]

LEMMA AroundToken ==
  ASSUME NEW u \in Words, NEW w \in Words, Len(w) = 1, NEW v \in Words
  PROVE  Joins(u \o w \o v, u, w[1], v)
<1> DEFINE t == u \o w
           s == t \o v
<1>1. /\ t \in Words /\ Len(t) = Len(u) + Len(w) /\ Len(u) \in Nat
      /\ \A i \in 1 .. Len(u) : t[i] = u[i]
      /\ \A i \in 1 .. Len(w) : t[Len(u) + i] = w[i]
  BY Concatenated
<1>2. t[Len(u) + 1] = w[1]
  <2>1. 1 \in 1 .. Len(w)
    OBVIOUS
  <2>2. QED
    BY <1>1, <2>1
<1> HIDE DEF t
<1>3. /\ s \in Words /\ Len(s) = Len(t) + Len(v) /\ Len(v) \in Nat
      /\ \A i \in 1 .. Len(t) : s[i] = t[i]
      /\ \A i \in 1 .. Len(v) : s[Len(t) + i] = v[i]
  BY <1>1, Concatenated
<1> HIDE DEF s
<1>4. Joins(s, u, w[1], v)
  BY <1>1, <1>2, <1>3 DEF Joins
<1>5. QED
  BY <1>4 DEF s, t

LEMMA CutAtSeparator ==
  ASSUME NEW u \in Words, NEW e \in Tokens, NEW v \in Words, ~Contains(u, e)
  PROVE  /\ Contains(u \o <<e>> \o v, e)
         /\ Before(u \o <<e>> \o v, e) = u
         /\ After(u \o <<e>> \o v, e) = v
<1> DEFINE w == <<e>>
           s == u \o w \o v
           n == Len(u) + 1
<1>1. w \in Words /\ Len(w) = 1 /\ w[1] = e
  BY OneToken
<1> HIDE DEF w
<1>2. Joins(s, u, e, v)
  BY <1>1, AroundToken
<1> HIDE DEF s
<1>3. /\ Before(s, e) = SubSeq(s, 1, n - 1)
      /\ After(s, e) = SubSeq(s, n + 1, Len(s))
  <2>1. n \in 1 .. Len(s)
    BY <1>2 DEF Joins
  <2>2. \A i \in 1 .. (n - 1) : s[i] # e
    BY <1>2 DEF Joins, Contains
  <2>3. QED
    BY <1>2, <2>1, <2>2, SelectsFirst DEF Joins
<1>4. Contains(s, e)
  BY <1>2 DEF Joins, Contains
<1>5. SubSeq(s, 1, n - 1) = u
  <2>1. \A i \in 1 .. (n - 1) : s[i] \in Tokens
    BY <1>2 DEF Joins, Words
  <2>2. /\ SubSeq(s, 1, n - 1) \in Words
        /\ Len(SubSeq(s, 1, n - 1)) = Len(u)
        /\ \A i \in 1 .. Len(u) : SubSeq(s, 1, n - 1)[i] = s[i]
    BY <1>2, <2>1, SubSeqProperties DEF Joins, Words
  <2>3. QED
    BY <1>2, <2>2, SeqEqual DEF Joins, Words
<1>6. SubSeq(s, n + 1, Len(s)) = v
  <2>1. \A i \in (n + 1) .. Len(s) : s[i] \in Tokens
    BY <1>2 DEF Joins, Words
  <2>2. /\ SubSeq(s, n + 1, Len(s)) \in Words
        /\ Len(SubSeq(s, n + 1, Len(s))) = Len(v)
        /\ \A i \in 1 .. Len(v) : SubSeq(s, n + 1, Len(s))[i] = s[n + i]
    BY <1>2, <2>1, SubSeqProperties DEF Joins, Words
  <2>3. QED
    BY <1>2, <2>2, SeqEqual DEF Joins, Words
<1>7. QED
  BY <1>3, <1>4, <1>5, <1>6 DEF s, w

\* A separator is in a concatenation when it is in one of the parts.
LEMMA ContainsEither ==
  ASSUME NEW u \in Words, NEW v \in Words, NEW e
  PROVE  Contains(u \o v, e) <=> Contains(u, e) \/ Contains(v, e)
<1>1. ASSUME NEW i \in 1 .. Len(u \o v), (u \o v)[i] = e
      PROVE  Contains(u, e) \/ Contains(v, e)
  <2>1. CASE i <= Len(u)
    <3>1. i \in 1 .. Len(u) /\ u[i] = e
      BY <1>1, <2>1, Concatenated
    <3>2. QED
      BY <3>1 DEF Contains
  <2>2. CASE i > Len(u)
    <3>1. i - Len(u) \in 1 .. Len(v) /\ i = Len(u) + (i - Len(u))
      BY <2>2, Concatenated
    <3>2. (u \o v)[i] = v[i - Len(u)]
      BY <3>1, Concatenated
    <3>3. QED
      BY <1>1, <3>1, <3>2 DEF Contains
  <2>3. QED
    BY <2>1, <2>2, Concatenated
<1>2. ASSUME NEW i \in 1 .. Len(u), u[i] = e PROVE Contains(u \o v, e)
  <2>1. i \in 1 .. Len(u \o v) /\ (u \o v)[i] = e
    BY <1>2, Concatenated
  <2>2. QED
    BY <2>1 DEF Contains
<1>3. ASSUME NEW i \in 1 .. Len(v), v[i] = e PROVE Contains(u \o v, e)
  <2>1. Len(u) + i \in 1 .. Len(u \o v) /\ (u \o v)[Len(u) + i] = e
    <3>1. (u \o v)[Len(u) + i] = v[i]
      BY Concatenated
    <3>2. Len(u) + i \in 1 .. Len(u \o v)
      BY Concatenated
    <3>3. QED
      BY <1>3, <3>1, <3>2
  <2>2. QED
    BY <2>1 DEF Contains
<1>4. QED
  BY <1>1, <1>2, <1>3 DEF Contains

LEMMA ContainsToken ==
  ASSUME NEW t \in Tokens, NEW e
  PROVE  Contains(<<t>>, e) <=> t = e
BY DEF Contains

LEMMA ColonsCounted ==
  ASSUME NEW s \in Words
  PROVE  Colons(s) \in Nat
<1>1. IsFiniteSet(1 .. Len(s)) /\ DOMAIN s = 1 .. Len(s)
  BY LenProperties, FS_Interval DEF Words
<1>2. IsFiniteSet({i \in DOMAIN s : s[i] = ":"})
  BY <1>1, FS_Subset
<1>3. QED
  BY <1>2, FS_CardinalityType DEF Colons

LEMMA NoColons ==
  ASSUME NEW s \in Words, ~Contains(s, ":")
  PROVE  Colons(s) = 0
<1>1. {i \in DOMAIN s : s[i] = ":"} = {}
  BY DEF Contains, Words
<1>2. QED
  BY <1>1, FS_EmptySet DEF Colons

LEMMA OneColon ==
  ASSUME NEW u \in Words, NEW v \in Words, ~Contains(u, ":"), ~Contains(v, ":")
  PROVE  Colons(u \o <<":">> \o v) = 1
<1> DEFINE w == <<":">>
           s == u \o w \o v
           n == Len(u) + 1
<1>1. ":" \in Tokens
  BY DEF Tokens, Separators
<1>2. w \in Words /\ Len(w) = 1 /\ w[1] = ":"
  BY <1>1, OneToken
<1> HIDE DEF w
<1>3. Joins(s, u, ":", v)
  BY <1>2, AroundToken
<1> HIDE DEF s
<1>4. {i \in DOMAIN s : s[i] = ":"} = {n}
  <2>1. DOMAIN s = 1 .. (n + Len(v))
    BY <1>3 DEF Joins, Words
  <2>2. ASSUME NEW i \in DOMAIN s, s[i] = ":" PROVE i = n
    <3>1. ~(i \in 1 .. Len(u))
      BY <1>3, <2>2 DEF Joins, Contains
    <3>2. ~(i - n \in 1 .. Len(v))
      <4> SUFFICES ASSUME i - n \in 1 .. Len(v) PROVE v[i - n] = ":"
        BY DEF Contains
      <4>1. i = n + (i - n)
        BY <1>3, <2>1 DEF Joins
      <4>2. QED
        BY <1>3, <2>2, <4>1 DEF Joins
    <3>3. QED
      BY <1>3, <2>1, <3>1, <3>2 DEF Joins
  <2>3. QED
    BY <1>3, <2>1, <2>2 DEF Joins
<1>5. QED
  BY <1>4, FS_Singleton DEF Colons, s, w

\* Two tokens, as the concatenations that the cuts are about.
LEMMA TwoTokens ==
  ASSUME NEW x \in Tokens, NEW y \in Tokens
  PROVE  <<x, y>> = <<x>> \o <<y>> /\ <<x, y>> \in Words
<1>1. <<x, y>> \in Words /\ Len(<<x, y>>) = 2
  BY DEF Words
<1>2. /\ <<x>> \o <<y>> \in Words /\ Len(<<x>> \o <<y>>) = 2
      /\ (<<x>> \o <<y>>)[1] = x /\ (<<x>> \o <<y>>)[2] = y
  BY OneToken, ConcatProperties DEF Words
<1>3. \A i \in 1 .. 2 : <<x, y>>[i] = (<<x>> \o <<y>>)[i]
  BY <1>2
<1>4. QED
  BY <1>1, <1>2, <1>3, SeqEqual DEF Words

LEMMA Associates ==
  ASSUME NEW u \in Words, NEW v \in Words, NEW w \in Words
  PROVE  u \o v \o w = u \o (v \o w)
BY ConcatAssociative DEF Words

LEMMA TwoTokensAfter ==
  ASSUME NEW u \in Words, NEW x \in Tokens, NEW y \in Tokens
  PROVE  u \o <<x, y>> = u \o <<x>> \o <<y>>
<1>1. <<x>> \in Words /\ <<y>> \in Words
  BY OneToken
<1>2. <<x, y>> = <<x>> \o <<y>>
  BY TwoTokens
<1>3. u \o <<x>> \o <<y>> = u \o (<<x>> \o <<y>>)
  BY <1>1, Associates
<1>4. QED
  BY <1>2, <1>3

LEMMA NoTokens ==
  ASSUME NEW u \in Words
  PROVE  u \o <<>> = u /\ <<>> \o u = u /\ <<>> \in Words
BY ConcatEmptySeq, EmptySeq DEF Words

LEMMA NotEmptied ==
  ASSUME NEW u \in Words, NEW v \in Words, u # <<>> \/ v # <<>>
  PROVE  u \o v # <<>>
BY ConcatEmptySeq DEF Words

LEMMA NothingContained ==
  ASSUME NEW e
  PROVE  ~Contains(<<>>, e)
BY DEF Contains

LEMMA AppendToken ==
  ASSUME NEW u \in Words, NEW t \in Tokens
  PROVE  Append(u, t) = u \o <<t>>
<1>1. <<t>> \in Words /\ Len(<<t>>) = 1 /\ <<t>>[1] = t
  BY OneToken
<1>2. Append(u, t) \in Words /\ Len(Append(u, t)) = Len(u) + 1
  BY DEF Words
<1>3. /\ u \o <<t>> \in Words /\ Len(u \o <<t>>) = Len(u) + 1
      /\ Len(u) \in Nat
      /\ \A i \in 1 .. Len(u) : (u \o <<t>>)[i] = u[i]
      /\ (u \o <<t>>)[Len(u) + 1] = t
  BY <1>1, ConcatProperties, LenProperties DEF Words
<1>4. \A i \in 1 .. Len(u) + 1 : Append(u, t)[i] = (u \o <<t>>)[i]
  BY <1>3 DEF Words
<1>5. QED
  BY <1>2, <1>3, <1>4, SeqEqual DEF Words

-----------------------------------------------------------------------------
(***************************************************************************)
(* The steps of normalizeBrokerURL.                                        *)
(***************************************************************************)
LEMMA SlashRemoved ==
  ASSUME NEW s \in Words, s # <<>>, s[Len(s)] # "/", NEW slash \in BOOLEAN
  PROVE  WithoutTrailingSlash(s \o (IF slash THEN <<"/">> ELSE <<>>)) = s
<1>1. CASE ~slash
  BY <1>1, NoTokens DEF WithoutTrailingSlash, Last
<1>2. CASE slash
  <2> DEFINE w == <<"/">>
             t == s \o w
  <2>1. w \in Words /\ Len(w) = 1 /\ w[1] = "/"
    <3>1. "/" \in Tokens
      BY DEF Tokens, Separators
    <3>2. QED
      BY <3>1, OneToken
  <2> HIDE DEF w
  <2>2. /\ t \in Words /\ Len(t) = Len(s) + 1 /\ Len(s) \in Nat
        /\ \A i \in 1 .. Len(s) : t[i] = s[i]
        /\ t[Len(s) + 1] = "/"
    <3>1. /\ t \in Words /\ Len(t) = Len(s) + Len(w) /\ Len(s) \in Nat
          /\ \A i \in 1 .. Len(s) : t[i] = s[i]
          /\ \A i \in 1 .. Len(w) : t[Len(s) + i] = w[i]
      BY <2>1, Concatenated
    <3>2. QED
      BY <2>1, <3>1
  <2> HIDE DEF t
  <2>3. t # <<>> /\ Last(t) = "/"
    BY <2>2 DEF Last
  <2>4. Front(t) = s
    <3>1. /\ SubSeq(t, 1, Len(s)) \in Words
          /\ Len(SubSeq(t, 1, Len(s))) = Len(s)
          /\ \A i \in 1 .. Len(s) : SubSeq(t, 1, Len(s))[i] = t[i]
      BY <2>2, SubSeqProperties DEF Words
    <3>2. SubSeq(t, 1, Len(s)) = s
      BY <2>2, <3>1, SeqEqual DEF Words
    <3>3. QED
      BY <2>2, <3>2 DEF Front
  <2>5. QED
    BY <1>2, <2>3, <2>4 DEF WithoutTrailingSlash, t, w
<1>3. QED
  BY <1>1, <1>2

LEMMA SchemeSplit ==
  ASSUME NEW authority \in Words, ~Contains(authority, "://"),
         NEW scheme \in Schemes \cup {""}
  PROVE  SplitScheme((IF scheme = "" THEN <<>> ELSE <<scheme, "://">>)
                       \o authority)
           = [scheme    |-> IF scheme = "" THEN <<>> ELSE <<scheme>>,
              authority |-> authority]
<1>1. CASE scheme = ""
  BY <1>1, NoTokens DEF SplitScheme
<1>2. CASE scheme # ""
  <2>1. scheme \in Tokens /\ "://" \in Tokens /\ scheme # "://"
    BY <1>2 DEF Tokens, Separators, Schemes
  <2>2. <<scheme>> \in Words /\ ~Contains(<<scheme>>, "://")
    BY <2>1, OneToken, ContainsToken
  <2>3. <<scheme, "://">> \o authority = <<scheme>> \o <<"://">> \o authority
    BY <2>1, TwoTokens
  <2>4. /\ Contains(<<scheme>> \o <<"://">> \o authority, "://")
        /\ Before(<<scheme>> \o <<"://">> \o authority, "://") = <<scheme>>
        /\ After(<<scheme>> \o <<"://">> \o authority, "://") = authority
    BY <2>1, <2>2, CutAtSeparator
  <2>5. QED
    BY <1>2, <2>3, <2>4 DEF SplitScheme
<1>3. QED
  BY <1>1, <1>2

-----------------------------------------------------------------------------
(***************************************************************************)
(* The authority of an address as it is written.                           *)
(***************************************************************************)
PortSuffix(a) == IF a.port = "" THEN <<>> ELSE <<":", a.port>>
Authority(a) == (IF a.bare THEN a.host ELSE Bracketed(a)) \o PortSuffix(a)

LEMMA AddressParts ==
  ASSUME NEW a, IsAddress(a)
  PROVE  /\ a.host \in Words /\ a.host # <<>> /\ a.port \in Tokens
         /\ a.port \notin Separators
         /\ \A e \in Separators : Contains(a.host, e) => a.ipv6 /\ e = ":"
<1> DEFINE h == a.host
<1>1. STRING \subseteq Tokens
  BY DEF Tokens
<1>2. h \in Seq(STRING) /\ h # <<>>
  BY DEF IsAddress
<1>3. \A i \in DOMAIN h : h[i] \in Separators => a.ipv6 /\ h[i] = ":"
  BY DEF IsAddress
<1>4. a.port \in STRING /\ a.port \notin Separators
  BY DEF IsAddress
<1> HIDE DEF h
<1>5. Len(h) \in Nat /\ DOMAIN h = 1 .. Len(h) /\ h \in [1 .. Len(h) -> STRING]
  BY <1>2, LenProperties
<1>6. h \in Words
  <2>1. h \in [1 .. Len(h) -> Tokens]
    BY <1>1, <1>5
  <2>2. QED
    BY <1>5, <2>1, SeqDef DEF Words
<1>7. \A e \in Separators : Contains(h, e) => a.ipv6 /\ e = ":"
  BY <1>3, <1>5 DEF Contains
<1>8. QED
  BY <1>1, <1>2, <1>4, <1>6, <1>7 DEF h

LEMMA SeparatorTokens ==
  Separators \subseteq Tokens /\ \A e \in Separators : <<e>> \in Words
BY OneToken DEF Tokens

\* A host as it is written has none of the separators that the scheme and the
\* path begin with.
LEMMA HostWritten ==
  ASSUME NEW a, IsAddress(a)
  PROVE  /\ Bracketed(a) \in Words /\ Bracketed(a) # <<>>
         /\ \A e \in {"://", "/", "@"} : /\ ~Contains(a.host, e)
                                       /\ ~Contains(Bracketed(a), e)
<1>1. /\ "[" \in Separators /\ "]" \in Separators
      /\ {"://", "/", "@"} \subseteq Separators
      /\ "[" \notin {"://", "/", "@"} /\ "]" \notin {"://", "/", "@"}
      /\ ":" \notin {"://", "/", "@"}
  BY DEF Separators
<1>2. /\ a.host \in Words /\ a.host # <<>>
      /\ \A e \in {"://", "/", "@"} : ~Contains(a.host, e)
  BY <1>1, AddressParts
<1>3. CASE ~a.ipv6
  BY <1>2, <1>3 DEF Bracketed
<1>4. CASE a.ipv6
  <2> DEFINE open == <<"[">>
             close == <<"]">>
  <2>1. /\ open \in Words /\ Len(open) = 1 /\ close \in Words
        /\ \A e \in {"://", "/", "@"} : /\ ~Contains(open, e)
                                      /\ ~Contains(close, e)
    BY <1>1, SeparatorTokens, OneToken, ContainsToken
  <2> HIDE DEF open, close
  <2>2. open \o a.host \in Words /\ open \o a.host # <<>>
    BY <1>2, <2>1, Concatenated, NotEmptied
  <2>3. open \o a.host \o close \in Words /\ open \o a.host \o close # <<>>
    BY <2>1, <2>2, Concatenated, NotEmptied
  <2>4. \A e \in {"://", "/", "@"} : ~Contains(open \o a.host \o close, e)
    BY <1>2, <2>1, <2>2, ContainsEither
  <2>5. Bracketed(a) = open \o a.host \o close
    BY <1>4 DEF Bracketed, open, close
  <2>6. QED
    BY <1>2, <2>3, <2>4, <2>5
<1>5. QED
  BY <1>3, <1>4

LEMMA PortWritten ==
  ASSUME NEW a, IsAddress(a)
  PROVE  /\ PortSuffix(a) \in Words
         /\ \A e \in {"://", "/", "@"} : ~Contains(PortSuffix(a), e)
<1>1. CASE a.port = ""
  <2>1. PortSuffix(a) = <<>>
    BY <1>1 DEF PortSuffix
  <2>2. <<>> \in Words
    BY EmptySeq DEF Words
  <2>3. QED
    BY <2>1, <2>2, NothingContained
<1>2. CASE a.port # ""
  <2>1. /\ a.port \in Tokens /\ ":" \in Tokens
        /\ a.port \notin {"://", "/", "@"} /\ ":" \notin {"://", "/", "@"}
    BY AddressParts, SeparatorTokens DEF Separators
  <2>2. /\ <<":", a.port>> \in Words /\ <<":", a.port>> = <<":">> \o <<a.port>>
        /\ <<":">> \in Words /\ <<a.port>> \in Words
    BY <2>1, TwoTokens, OneToken
  <2>3. \A e \in {"://", "/", "@"} : /\ ~Contains(<<":">>, e)
                                   /\ ~Contains(<<a.port>>, e)
    BY <2>1, ContainsToken
  <2>4. \A e \in {"://", "/", "@"} : ~Contains(<<":", a.port>>, e)
    <3> TAKE e \in {"://", "/", "@"}
    <3>1. ~Contains(<<":">> \o <<a.port>>, e)
      BY <2>2, <2>3, ContainsEither
    <3>2. QED
      BY <2>2, <3>1
  <2>5. QED
    BY <1>2, <2>2, <2>4 DEF PortSuffix
<1>3. QED
  BY <1>1, <1>2

LEMMA AuthorityWritten ==
  ASSUME NEW a, IsAddress(a)
  PROVE  /\ Authority(a) \in Words /\ Authority(a) # <<>>
         /\ Authority(a)[Len(Authority(a))] # "/"
         /\ ~Contains(Authority(a), "://")
<1> DEFINE h == IF a.bare THEN a.host ELSE Bracketed(a)
           p == PortSuffix(a)
<1>1. /\ h \in Words /\ h # <<>> /\ p \in Words
      /\ \A e \in {"://", "/", "@"} : ~Contains(h, e) /\ ~Contains(p, e)
  BY AddressParts, HostWritten, PortWritten
<1> HIDE DEF h, p
<1>2. h \o p \in Words /\ h \o p # <<>>
  BY <1>1, Concatenated, NotEmptied
<1>3. \A e \in {"://", "/", "@"} : ~Contains(h \o p, e)
  BY <1>1, ContainsEither
<1>4. (h \o p)[Len(h \o p)] # "/"
  <2>1. Len(h \o p) \in 1 .. Len(h \o p)
    BY <1>2, LenProperties, EmptySeq DEF Words
  <2>2. QED
    BY <1>3, <2>1 DEF Contains
<1>5. h \o p = Authority(a)
  BY DEF Authority, h, p
<1>6. QED
  BY <1>2, <1>3, <1>4, <1>5

-----------------------------------------------------------------------------
(***************************************************************************)
(* splitAuthority, for each of the ways to write a host.                   *)
(***************************************************************************)
SplitParts(a) == [host |-> Bracketed(a),
                  port |-> IF a.port = "" THEN <<>> ELSE <<a.port>>]

LEMMA FirstToken ==
  ASSUME NEW u \in Words, u # <<>>, NEW v \in Words
  PROVE  u \o v # <<>> /\ Head(u \o v) = u[1]
<1>1. Len(u) \in Nat /\ Len(u) > 0
  BY LenProperties, EmptySeq DEF Words
<1>2. u \o v \in Words /\ u \o v # <<>> /\ (u \o v)[1] = u[1]
  BY <1>1, Concatenated, NotEmptied
<1>3. QED
  BY <1>2, HeadTailProperties DEF Words

LEMMA BareLiteralSplit ==
  ASSUME NEW a, IsAddress(a), a.bare
  PROVE  SplitAuthority(Authority(a)) = SplitParts(a)
<1>1. a.ipv6 /\ a.port = "" /\ Colons(a.host) > 1
  BY DEF IsAddress
<1>2. a.host \in Words /\ a.host # <<>> /\ ~Contains(a.host, "[")
  BY AddressParts DEF Separators
<1>3. Authority(a) = a.host
  BY <1>1, <1>2, NoTokens DEF Authority, PortSuffix
<1>4. Head(a.host) # "["
  BY <1>2, EmptySeq DEF Contains, Words
<1>5. SplitAuthority(a.host)
        = [host |-> <<"[">> \o a.host \o <<"]">>, port |-> <<>>]
  <2>1. Colons(a.host) # 1 /\ Colons(a.host) # 0
    <3>1. Colons(a.host) \in Nat
      BY <1>2, ColonsCounted
    <3>2. \A c \in Nat : c > 1 => c # 1 /\ c # 0
      OBVIOUS
    <3>3. QED
      BY <1>1, <3>1, <3>2, Zenon
  <2>2. QED
    BY <1>1, <1>2, <1>4, <2>1 DEF SplitAuthority
<1>6. QED
  BY <1>1, <1>3, <1>5 DEF SplitParts, Bracketed

LEMMA LiteralSplit ==
  ASSUME NEW a, IsAddress(a), a.ipv6, ~a.bare
  PROVE  SplitAuthority(Authority(a)) = SplitParts(a)
<1> DEFINE open == <<"[">>
           close == <<"]">>
           u == open \o a.host
           p == PortSuffix(a)
           s == u \o close \o p
<1>1. open \in Words /\ close \in Words /\ open # <<>> /\ open[1] = "["
  BY SeparatorTokens DEF Separators
<1>2. a.host \in Words /\ ~Contains(a.host, "]") /\ p \in Words
  BY AddressParts, PortWritten DEF Separators
<1>3. s = Authority(a)
  BY DEF Authority, Bracketed
<1>4. ~Contains(open, "]") /\ "]" \in Tokens /\ "[" \in Tokens
  BY SeparatorTokens, ContainsToken DEF Separators
<1>5. u \o close = Bracketed(a)
  BY DEF Bracketed
<1> HIDE DEF open, p
<1>6. u \in Words /\ u # <<>> /\ u[1] = "[" /\ ~Contains(u, "]")
  <2>1. u \in Words /\ u # <<>>
    BY <1>1, <1>2, Concatenated, NotEmptied
  <2>2. ~Contains(u, "]")
    BY <1>1, <1>2, <1>4, ContainsEither
  <2>3. u[1] = "["
    BY <1>1, <1>2, <2>1, FirstToken DEF Words
  <2>4. QED
    BY <2>1, <2>2, <2>3
<1> HIDE DEF u
<1>7. Append(u, "]") = u \o close
  BY <1>4, <1>6, AppendToken
<1>8. Contains(s, "]") /\ Before(s, "]") = u /\ After(s, "]") = p
  BY <1>2, <1>4, <1>6, CutAtSeparator
<1> HIDE DEF close
<1>9. s # <<>> /\ Head(s) = "["
  <2>1. close \o p \in Words
    BY <1>1, <1>2, Concatenated
  <2>2. s = u \o (close \o p)
    BY <1>1, <1>2, <1>6, Associates
  <2>3. QED
    BY <1>6, <2>1, <2>2, FirstToken
<1> HIDE DEF s
<1>10. SplitAuthority(s)
         = [host |-> u \o close,
            port |-> IF p # <<>> /\ Head(p) = ":" THEN Tail(p) ELSE <<>>]
  BY <1>7, <1>8, <1>9 DEF SplitAuthority
<1>11. (IF p # <<>> /\ Head(p) = ":" THEN Tail(p) ELSE <<>>)
         = IF a.port = "" THEN <<>> ELSE <<a.port>>
  <2>1. CASE a.port = ""
    BY <2>1 DEF p, PortSuffix
  <2>2. CASE a.port # ""
    <3>1. p = <<":", a.port>>
      BY <2>2 DEF p, PortSuffix
    <3>2. a.port \in Tokens /\ ":" \in Tokens
      BY AddressParts, SeparatorTokens DEF Separators
    <3>3. p # <<>> /\ Head(p) = ":" /\ Tail(p) = <<a.port>>
      BY <3>1, <3>2
    <3>4. QED
      BY <2>2, <3>3
  <2>3. QED
    BY <2>1, <2>2
<1>12. QED
  BY <1>3, <1>5, <1>10, <1>11 DEF SplitParts

LEMMA NameSplit ==
  ASSUME NEW a, IsAddress(a), ~a.ipv6
  PROVE  SplitAuthority(Authority(a)) = SplitParts(a)
<1> DEFINE h == a.host
<1>1. /\ h \in Words /\ h # <<>> /\ ~Contains(h, "[") /\ ~Contains(h, ":")
      /\ a.port \in Tokens /\ a.port # ":" /\ ":" \in Tokens
  BY AddressParts, SeparatorTokens DEF Separators
<1>2. ~a.bare /\ Bracketed(a) = h
  BY DEF IsAddress, Bracketed
<1> HIDE DEF h
<1>3. Head(h) # "["
  BY <1>1, EmptySeq DEF Contains, Words
<1>4. CASE a.port = ""
  <2>1. Authority(a) = h
    BY <1>1, <1>2, <1>4, NoTokens DEF Authority, PortSuffix
  <2>2. Colons(h) = 0
    BY <1>1, NoColons
  <2>3. SplitAuthority(h) = [host |-> h, port |-> <<>>]
    BY <1>1, <1>3, <2>2 DEF SplitAuthority
  <2>4. QED
    BY <1>2, <1>4, <2>1, <2>3 DEF SplitParts
<1>5. CASE a.port # ""
  <2> DEFINE colon == <<":">>
             p == <<a.port>>
             s == h \o colon \o p
  <2>1. colon \in Words /\ p \in Words /\ ~Contains(p, ":")
    BY <1>1, OneToken, ContainsToken
  <2>2. Authority(a) = s
    <3>1. Authority(a) = h \o <<":", a.port>>
      BY <1>2, <1>5 DEF Authority, PortSuffix
    <3>2. QED
      BY <1>1, <3>1, TwoTokensAfter
  <2> HIDE DEF p
  <2>3. Colons(s) = 1
    BY <1>1, <2>1, OneColon
  <2>4. Before(s, ":") = h /\ After(s, ":") = p
    BY <1>1, <2>1, CutAtSeparator
  <2> HIDE DEF colon
  <2>5. s # <<>> /\ Head(s) # "["
    <3>1. colon \o p \in Words /\ s = h \o (colon \o p)
      BY <1>1, <2>1, Concatenated, Associates
    <3>2. h[1] # "["
      BY <1>1, <1>3 DEF Words
    <3>3. QED
      BY <1>1, <3>1, <3>2, FirstToken
  <2> HIDE DEF s
  <2>6. SplitAuthority(s) = [host |-> h, port |-> p]
    BY <2>3, <2>4, <2>5 DEF SplitAuthority
  <2>7. QED
    BY <1>2, <1>5, <2>2, <2>6 DEF SplitParts, p
<1>6. QED
  BY <1>4, <1>5

LEMMA AuthoritySplit ==
  ASSUME NEW a, IsAddress(a)
  PROVE  SplitAuthority(Authority(a)) = SplitParts(a)
BY BareLiteralSplit, LiteralSplit, NameSplit DEF IsAddress

-----------------------------------------------------------------------------
\* The address as Canonical puts it together, from its parts.
LEMMA WrittenParts ==
  ASSUME NEW a, IsAddress(a)
  PROVE  Written(a)
           = ((IF a.scheme = "" THEN <<>> ELSE <<a.scheme, "://">>)
                \o Authority(a)) \o (IF a.slash THEN <<"/">> ELSE <<>>)
<1> DEFINE scheme == IF a.scheme = "" THEN <<>> ELSE <<a.scheme, "://">>
           h == IF a.bare THEN a.host ELSE Bracketed(a)
           p == PortSuffix(a)
<1>1. scheme \in Words
  <2>1. a.scheme \in Tokens /\ "://" \in Tokens
    BY DEF IsAddress, Tokens, Separators
  <2>2. <<a.scheme, "://">> \in Words /\ <<>> \in Words
    BY <2>1, TwoTokens, EmptySeq DEF Words
  <2>3. QED
    BY <2>2
<1>2. h \in Words /\ p \in Words
  BY AddressParts, HostWritten, PortWritten
<1> HIDE DEF scheme, h, p
<1>3. scheme \o h \o p = scheme \o (h \o p)
  BY <1>1, <1>2, Associates
<1>4. QED
  BY <1>3 DEF Written, Authority, PortSuffix, scheme, h, p

LEMMA SchemeResolved ==
  ASSUME NEW scheme \in Schemes \cup {""}
  PROVE  ResolveScheme(IF scheme = "" THEN <<>> ELSE <<scheme>>)
           = IF scheme \in {"ssl", "tls", "mqtts"} THEN "ssl"
             ELSE IF scheme \in {"ws", "wss"} THEN scheme ELSE "tcp"
<1>1. CASE scheme \in {"", "http", "https", "mqtt"}
  BY <1>1 DEF ResolveScheme
<1>2. CASE scheme \in {"mqtts", "tls"}
  BY <1>2 DEF ResolveScheme
<1>3. CASE scheme \in {"tcp", "ssl", "ws", "wss"}
  <2>1. /\ <<scheme>> \notin {<<>>, <<"http">>, <<"https">>, <<"mqtt">>}
        /\ <<scheme>> \notin {<<"mqtts">>, <<"tls">>}
    BY <1>3
  <2>2. Head(<<scheme>>) = scheme
    <3>1. scheme \in Tokens /\ <<>> \in Words /\ <<>> \in Seq(Tokens)
      BY <1>3, EmptySeq DEF Words, Tokens, Schemes
    <3>2. Append(<<>>, scheme) = <<scheme>>
      BY <3>1, AppendToken, NoTokens, OneToken
    <3>3. Head(Append(<<>>, scheme)) = scheme
      BY <3>1, HeadTailAppend
    <3>4. QED
      BY <3>2, <3>3
  <2>3. ResolveScheme(<<scheme>>) = scheme
    BY <2>1, <2>2, Zenon DEF ResolveScheme
  <2>4. QED
    BY <1>3, <2>3
<1>4. QED
  BY <1>1, <1>2, <1>3 DEF Schemes

\* However an operator writes the address of a broker, normalizeBrokerURL
\* makes of it the canonical address of the broker that was meant.
THEOREM NormalizesToMeant ==
  ASSUME NEW a, IsAddress(a)
  PROVE  NormalizeBrokerURL(Written(a)) = Canonical(a)
<1> DEFINE prefix == IF a.scheme = "" THEN <<>> ELSE <<a.scheme, "://">>
           s == prefix \o Authority(a)
           token == IF a.scheme = "" THEN <<>> ELSE <<a.scheme>>
           port == IF a.port = "" THEN <<>> ELSE <<a.port>>
           resolved == ResolveScheme(token)
<1>1. a.scheme \in Schemes \cup {""} /\ a.slash \in BOOLEAN
  BY DEF IsAddress
<1>2. s \in Words /\ s # <<>> /\ s[Len(s)] # "/"
  <2> DEFINE w == Authority(a)
  <2>1. w \in Words /\ w # <<>> /\ w[Len(w)] # "/"
    BY AuthorityWritten
  <2>2. prefix \in Words
    <3>1. a.scheme \in Tokens /\ "://" \in Tokens
      BY <1>1 DEF Tokens, Separators
    <3>2. <<a.scheme, "://">> \in Words /\ <<>> \in Words
      BY <3>1, TwoTokens, EmptySeq DEF Words
    <3>3. QED
      BY <3>2
  <2> HIDE DEF w, prefix
  <2>3. Len(w) \in 1 .. Len(w) /\ Len(w) \in Nat
    BY <2>1, LenProperties, EmptySeq DEF Words
  <2>4. /\ prefix \o w \in Words /\ prefix \o w # <<>>
        /\ Len(prefix \o w) = Len(prefix) + Len(w)
        /\ (prefix \o w)[Len(prefix) + Len(w)] = w[Len(w)]
    <3>1. prefix \o w # <<>>
      BY <2>1, <2>2, NotEmptied
    <3>2. QED
      BY <2>1, <2>2, <2>3, <3>1, Concatenated
  <2>5. QED
    BY <2>1, <2>4 DEF w
<1>3. Written(a) # <<>> /\ WithoutTrailingSlash(Written(a)) = s
  <2> DEFINE slash == IF a.slash THEN <<"/">> ELSE <<>>
  <2>1. Written(a) = s \o slash
    BY WrittenParts
  <2> HIDE DEF s
  <2>2. WithoutTrailingSlash(s \o slash) = s
    BY <1>1, <1>2, SlashRemoved
  <2>3. slash \in Words
    BY SeparatorTokens, EmptySeq DEF Words, Separators
  <2> HIDE DEF slash
  <2>4. s \o slash # <<>>
    BY <1>2, <2>3, NotEmptied
  <2>5. QED
    BY <2>1, <2>2, <2>4
<1>4. SplitScheme(s) = [scheme |-> token, authority |-> Authority(a)]
  BY <1>1, AuthorityWritten, SchemeSplit
<1>5. SplitAuthority(Authority(a)) = [host |-> Bracketed(a), port |-> port]
  BY AuthoritySplit DEF SplitParts
<1>6. token \in {<<>>} \cup {<<t>> : t \in Schemes}
  BY <1>1
<1>7. Bracketed(a) # <<>>
  BY HostWritten
<1> HIDE DEF s, token, port
<1>8. NormalizeBrokerURL(Written(a))
        = <<resolved, "://">> \o Bracketed(a) \o <<":">>
            \o (IF port = <<>> THEN DefaultPort(resolved) ELSE port)
  <2> DEFINE split == SplitScheme(WithoutTrailingSlash(Written(a)))
             place == SplitAuthority(split.authority)
  <2>1. split.scheme = token /\ split.authority = Authority(a)
    BY <1>3, <1>4
  <2>2. place.host = Bracketed(a) /\ place.port = port
    BY <1>5, <2>1
  <2>3. ~(\/ Written(a) = <<>>
          \/ split.scheme \notin {<<>>} \cup {<<t>> : t \in Schemes}
          \/ place.host = <<>>)
    BY <1>3, <1>6, <1>7, <2>1, <2>2
  <2>4. NormalizeBrokerURL(Written(a))
          = <<ResolveScheme(split.scheme), "://">> \o place.host \o <<":">>
              \o (IF place.port = <<>>
                  THEN DefaultPort(ResolveScheme(split.scheme))
                  ELSE place.port)
    BY <2>3, Zenon DEF NormalizeBrokerURL
  <2>5. QED
    BY <2>1, <2>2, <2>4
<1> DEFINE number == IF a.port # "" THEN a.port
                     ELSE IF a.scheme \in {"ssl", "tls", "mqtts"}
                          THEN "8883" ELSE "1883"
<1>9. resolved = IF a.scheme \in {"ssl", "tls", "mqtts"} THEN "ssl"
                 ELSE IF a.scheme \in {"ws", "wss"} THEN a.scheme ELSE "tcp"
  BY <1>1, SchemeResolved DEF token
<1> HIDE DEF resolved
<1>10. (IF port = <<>> THEN DefaultPort(resolved) ELSE port) = <<number>>
  BY <1>1, <1>9 DEF DefaultPort, port
<1>11. number \in Tokens /\ resolved \in Tokens
  <2>1. a.port \in Tokens
    BY AddressParts
  <2>2. QED
    BY <1>9, <2>1 DEF Tokens, Schemes
<1> HIDE DEF number
<1>12. <<resolved, "://">> \o Bracketed(a) \o <<":", number>>
         = <<resolved, "://">> \o Bracketed(a) \o <<":">> \o <<number>>
  <2>1. "://" \in Tokens /\ ":" \in Tokens
    BY SeparatorTokens DEF Separators
  <2>2. <<resolved, "://">> \o Bracketed(a) \in Words
    BY <1>11, <2>1, TwoTokens, HostWritten, Concatenated
  <2>3. QED
    BY <1>11, <2>1, <2>2, TwoTokensAfter
<1>13. Canonical(a) = <<resolved, "://">> \o Bracketed(a) \o <<":", number>>
  BY <1>9 DEF Canonical, number
<1>14. QED
  BY <1>8, <1>10, <1>12, <1>13

=============================================================================
