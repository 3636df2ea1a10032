------------------------------- MODULE Broker -------------------------------
(***************************************************************************)
(* The address of the MQTT broker: what Config.Validate accepts in a       *)
(* configuration file, and what normalizeBrokerURL makes of an address     *)
(* before the client dials it.                                             *)
(*                                                                         *)
(* An address is a sequence of tokens: the separators "://", ":", "/",     *)
(* "@", "[" and "]", and the names and numbers between them.  Upper case   *)
(* and surrounding blanks, which are removed first, are left out, and so   *)
(* are an address that ends in "://" and a port that is not a number.      *)
(***************************************************************************)
EXTENDS Integers, SequencesExt

\* The part of an address before the first separator, and the part after it.
Before(s, separator) == SubSeq(s, 1, SelectInSeq(s, LAMBDA t : t = separator) - 1)
After(s, separator) ==
  SubSeq(s, SelectInSeq(s, LAMBDA t : t = separator) + 1, Len(s))

Colons(s) == Cardinality({i \in DOMAIN s : s[i] = ":"})

-----------------------------------------------------------------------------
(***************************************************************************)
(* normalizeBrokerURL.                                                     *)
(***************************************************************************)
Schemes == {"tcp", "ssl", "ws", "wss", "http", "https", "mqtt", "mqtts", "tls"}

\* No scheme is taken for tcp.
ResolveScheme(scheme) ==
  CASE scheme \in {<<>>, <<"http">>, <<"https">>, <<"mqtt">>} -> "tcp"
    [] scheme \in {<<"mqtts">>, <<"tls">>}                   -> "ssl"
    [] OTHER                                                 -> Head(scheme)

SplitScheme(s) ==
  IF Contains(s, "://")
  THEN [scheme |-> Before(s, "://"), authority |-> After(s, "://")]
  ELSE [scheme |-> <<>>, authority |-> s]

\* An address that cannot be split.
NoHost == [host |-> <<>>, port |-> <<>>]

\* Seeded bug: the host ends at the first colon.
SplitAtFirstColon(a) ==
  IF Contains(a, ":") THEN [host |-> Before(a, ":"), port |-> After(a, ":")]
                      ELSE [host |-> a, port |-> <<>>]

\* "[ipv6]" with or without a port, a bare IPv6 literal, "host:port", "host".
SplitAuthority(a) ==
  CASE a = <<>> -> NoHost
    [] a # <<>> /\ Head(a) = "[" /\ ~Contains(a, "]") -> NoHost
    [] a # <<>> /\ Head(a) = "[" /\ Contains(a, "]") ->
         LET rest == After(a, "]")
         IN  [host |-> Append(Before(a, "]"), "]"),
              port |-> IF rest # <<>> /\ Head(rest) = ":" THEN Tail(rest)
                                                          ELSE <<>>]
    [] a # <<>> /\ Head(a) # "[" /\ Colons(a) > 1 ->
         [host |-> <<"[">> \o a \o <<"]">>, port |-> <<>>]
    [] a # <<>> /\ Head(a) # "[" /\ Colons(a) = 1 ->
         [host |-> Before(a, ":"), port |-> After(a, ":")]
    [] a # <<>> /\ Head(a) # "[" /\ Colons(a) = 0 -> [host |-> a, port |-> <<>>]

DefaultPort(scheme) == IF scheme = "ssl" THEN <<"8883">> ELSE <<"1883">>

WithoutTrailingSlash(s) ==
  IF s # <<>> /\ Last(s) = "/" THEN Front(s) ELSE s

\* What cannot be parsed is returned unchanged.
NormalizeBrokerURL(raw) ==
  LET split == SplitScheme(WithoutTrailingSlash(raw))
      known == split.scheme \in {<<>>} \cup {<<s>> : s \in Schemes}
      scheme == ResolveScheme(split.scheme)
      place == SplitAuthority(split.authority)
  IN  IF raw = <<>> \/ ~known \/ place.host = <<>> THEN raw
      ELSE <<scheme, "://">> \o place.host \o <<":">> \o
             (IF place.port = <<>> THEN DefaultPort(scheme) ELSE place.port)

-----------------------------------------------------------------------------
(***************************************************************************)
(* Validate's test of mqtt.broker, as url.Parse reads an address: the      *)
(* authority ends at the first slash, the host begins after the "@", and a *)
(* bracket is closed; "host:port" and a bare host have no scheme that is   *)
(* accepted.                                                               *)
(***************************************************************************)
FileSchemes == {"tcp", "ssl", "ws", "wss", "mqtt", "mqtts"}

URLHost(s) ==
  LET rest == After(s, "://")
      authority == IF Contains(rest, "/") THEN Before(rest, "/") ELSE rest
  IN  IF Contains(authority, "@") THEN After(authority, "@") ELSE authority

ValidBroker(s) ==
  /\ Contains(s, "://")
  /\ \E scheme \in FileSchemes : Before(s, "://") = <<scheme>>
  /\ URLHost(s) # <<>>
  /\ Head(URLHost(s)) = "[" => Contains(URLHost(s), "]")

-----------------------------------------------------------------------------
(***************************************************************************)
(* The reference: a broker as an operator means it, with its scheme and    *)
(* port, or "" for none; how it can be written, with a slash at the end or *)
(* not and an IPv6 literal bare or in brackets; and the canonical address. *)
(***************************************************************************)
Separators == {"://", ":", "/", "@", "[", "]"}

\* A host is a name or an IPv6 literal, the one with at least two colons; a
\* literal is written bare only when no port follows it.
IsAddress(a) ==
  /\ a.scheme \in Schemes \cup {""}
  /\ a.host \in Seq(STRING) /\ a.host # <<>>
  /\ \A i \in DOMAIN a.host :
       a.host[i] \in Separators => a.ipv6 /\ a.host[i] = ":"
  /\ a.ipv6 => Colons(a.host) > 1
  /\ a.bare => a.ipv6 /\ a.port = ""
  /\ a.port \in STRING \ Separators
  /\ {a.ipv6, a.bare, a.slash} \subseteq BOOLEAN

Bracketed(a) == IF a.ipv6 THEN <<"[">> \o a.host \o <<"]">> ELSE a.host

Written(a) ==
  (IF a.scheme = "" THEN <<>> ELSE <<a.scheme, "://">>)
    \o (IF a.bare THEN a.host ELSE Bracketed(a))
    \o (IF a.port = "" THEN <<>> ELSE <<":", a.port>>)
    \o (IF a.slash THEN <<"/">> ELSE <<>>)

Canonical(a) ==
  LET overTLS == a.scheme \in {"ssl", "tls", "mqtts"}
  IN  <<IF overTLS THEN "ssl"
        ELSE IF a.scheme \in {"ws", "wss"} THEN a.scheme ELSE "tcp", "://">>
        \o Bracketed(a)
        \o <<":", IF a.port # "" THEN a.port
                  ELSE IF overTLS THEN "8883" ELSE "1883">>
=============================================================================
