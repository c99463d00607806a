----------------------------- MODULE AddressPolicy -----------------------------
(***************************************************************************)
(* The pure checks of automa-safe-fetch: which addresses, host names and   *)
(* URLs may be asked (src/ip.ts, src/blocklist.ts, src/url.ts).            *)
(*                                                                         *)
(* An address is the sequence of its bytes, as in the code; the number of  *)
(* bits in a byte and the parts of an IPv4-mapped address are parameters   *)
(* (8, and 10 + 2 + 4 bytes, in the code), so that TLC can try every       *)
(* address of a small size.  A host name is the sequence of its labels.    *)
(***************************************************************************)
EXTENDS Integers, Sequences

CONSTANTS ByteBits,         \* bits in a byte
          ZeroBytes,        \* the zero bytes that open an IPv4-mapped address
          OnesBytes,        \* the 0xff bytes that follow them
          V4Bytes,          \* the bytes of an IPv4 address
          Blocked, Allowed, \* the blocklist: sets of [bytes, prefix]
          MetadataTexts,    \* METADATA_ADDRESSES
          HostRules,        \* blockedHostnames: [under, labels]
          Schemes, Ports    \* the URL policy

ASSUME SizesAssumption ==
  /\ ByteBits \in Nat \ {0} /\ V4Bytes \in Nat \ {0}
  /\ ZeroBytes \in Nat \ {0} /\ OnesBytes \in Nat \ {0}

(* The powers of two.                                                      *)
TwoTo[n \in Nat] == IF n = 0 THEN 1 ELSE 2 * TwoTo[n - 1]

Byte == 0 .. TwoTo[ByteBits] - 1
V6Bytes == ZeroBytes + OnesBytes + V4Bytes

(* What parseIp makes of a text, if anything.                              *)
IsAddress(a) == a \in Seq(Byte) /\ Len(a) \in {V4Bytes, V6Bytes}

(* A CIDR as parseCidr lets it be: no longer a prefix than the address.    *)
IsCidr(c) == /\ IsAddress(c.bytes)
             /\ c.prefix \in 0 .. ByteBits * Len(c.bytes)

(* The first n bits of a byte.                                             *)
HighBits(b, n) == b \div TwoTo[ByteBits - n]

(* Byte-wise prefix comparison; the families must match.                   *)
cidrContains(c, a) ==
  LET whole == c.prefix \div ByteBits
      rest  == c.prefix % ByteBits
  IN /\ Len(c.bytes) = Len(a)
     /\ \A i \in 1 .. whole : c.bytes[i] = a[i]
     /\ rest = 0 \/ HighBits(c.bytes[whole + 1], rest) = HighBits(a[whole + 1], rest)

isIpv4Mapped(a) ==
  /\ Len(a) = V6Bytes
  /\ \A i \in 1 .. ZeroBytes : a[i] = 0
  /\ \A i \in ZeroBytes + 1 .. ZeroBytes + OnesBytes : a[i] = TwoTo[ByteBits] - 1

unwrapIpv4Mapped(a) == SubSeq(a, ZeroBytes + OnesBytes + 1, V6Bytes)

(* The text of an address: its groups before and after the gap that stands *)
(* for a run of zeros.  A group is a byte here; an IPv4 address has no gap.*)
ZeroRuns(a) == {r \in (1 .. Len(a)) \X (1 .. Len(a)) :
                  r[1] < r[2] /\ \A k \in r[1] .. r[2] : a[k] = 0}

(* The longest run of at least two, the first of several as long.          *)
Longest(runs) == CHOOSE r \in runs :
  \A q \in runs : LET d == (r[2] - r[1]) - (q[2] - q[1])
                 IN d > 0 \/ (d = 0 /\ r[1] <= q[1])

ipToString(a) ==
  IF Len(a) = V4Bytes \/ ZeroRuns(a) = {}
  THEN [head |-> a, gap |-> FALSE, tail |-> <<>>]
  ELSE LET r == Longest(ZeroRuns(a))
       IN [head |-> SubSeq(a, 1, r[1] - 1), gap |-> TRUE,
           tail |-> SubSeq(a, r[2] + 1, Len(a))]

(* What follows the gap is right-aligned in the address.                   *)
parseIp(t) ==
  IF ~ t.gap THEN t.head
  ELSE t.head \o [i \in 1 .. V6Bytes - Len(t.head) - Len(t.tail) |-> 0] \o t.tail

(* compile throws at a range that is no CIDR; the metadata addresses are   *)
(* written as ipToString writes them.                                      *)
ASSUME ListsAssumption ==
  /\ \A c \in Blocked \cup Allowed : IsCidr(c)
  /\ \A t \in MetadataTexts : ipToString(parseIp(t)) = t

InRange(a, list) == \E c \in list : cidrContains(c, a)

(* May this address be connected to?  An allowed range wins; then the      *)
(* metadata addresses, known by their text, the mapped ones and the        *)
(* blocked ranges are refused.                                             *)
validateAddress(a) ==
  \/ InRange(a, Allowed)
  \/ /\ ipToString(a) \notin MetadataTexts
     /\ IF isIpv4Mapped(a) THEN InRange(unwrapIpv4Mapped(a), Allowed)
                           ELSE ~ InRange(a, Blocked)

(* A rule with a leading dot is the name and everything under it.          *)
RuleMatches(rule, name) ==
  LET n == Len(name)
      k == Len(rule.labels)
  IN IF rule.under
     THEN n >= k /\ SubSeq(name, n - k + 1, n) = rule.labels
     ELSE name = rule.labels

validateHostname(name) == \A rule \in HostRules : ~ RuleMatches(rule, name)

(* Is a host an IPv4 address in a form other than dotted decimal?  Each of *)
(* its parts is "hex", "octal", "decimal" or a "name".                     *)
detectEncodedIpLiteral(parts) ==
  /\ Len(parts) \in 1 .. 4
  /\ \A i \in 1 .. Len(parts) : parts[i] # "name"
  /\ Len(parts) < 4 \/ \E i \in 1 .. Len(parts) : parts[i] \in {"hex", "octal"}

(* A URL is [parses, scheme, userinfo, raw, literal, name, addr, port]; raw *)
(* are the parts of the host as it was written.  Every refusal is one      *)
(* SsrfBlockedError, whatever its reason.                                  *)
validateUrl(u) ==
  /\ u.parses
  /\ u.scheme \in Schemes
  /\ ~ u.userinfo
  /\ ~ detectEncodedIpLiteral(u.raw)
  /\ validateHostname(u.name)
  /\ u.literal => validateAddress(u.addr)
  /\ u.port \in Ports

================================================================================
