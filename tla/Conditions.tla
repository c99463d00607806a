----------------------------- MODULE Conditions -----------------------------
(***************************************************************************)
(* The condition language of a branch (durable-runner/src/branching.ts).   *)
(* A condition is a sequence of tokens: words, operators, commas and quote *)
(* marks, as they stand between blanks once references are resolved.       *)
(***************************************************************************)
EXTENDS Integers, FiniteSets, SequencesExt

CONSTANTS
  Quote,
  Number      \* the words that are numbers, with their values

UnaryOps == {"exists", "does not exist"}
WordOps == <<"does not start with", "does not contain", "does not end with",
             "does not exist", "is not in", "starts with", "ends with",
             "contains", "is in", "exists">>
Symbols == <<">=", "<=", "!=", "=", ">", "<">>
Blank == "blank"

Answer(ok, value) == [ok |-> ok, value |-> value]
Unreadable == Answer(FALSE, FALSE)

Quotes(s, n) == Cardinality({i \in 1 .. n : s[i] = Quote})

(* what stands between two quote marks is blanked out                      *)
maskQuoted(s) ==
  [i \in DOMAIN s |-> IF s[i] # Quote /\ Quotes(s, i) % 2 = 1 THEN Blank
                      ELSE s[i]]

Places(s, token) == {i \in DOMAIN s : maskQuoted(s)[i] = token}

(* The pieces between the separators that stand outside quotes; a joining  *)
(* word joins only what stands on both its sides, and takes the blanks     *)
(* around it with it, so that the next word does not join as well.         *)
splitUnquoted(s, separator) ==
  LET splits[i \in 0 .. Len(s)] ==
        /\ i \in Places(s, separator)
        /\ separator = "," \/ (1 < i /\ i < Len(s) /\ ~splits[i - 1])
      at == SetToSortSeq({i \in 0 .. Len(s) : splits[i]}, <)
      from(k) == IF k = 1 THEN 1 ELSE at[k - 1] + 1
      to(k) == IF k > Len(at) THEN Len(s) ELSE at[k] - 1
  IN  [k \in 1 .. Len(at) + 1 |-> SubSeq(s, from(k), to(k))]

unquote(s) ==
  IF Len(s) >= 2 /\ s[1] = Quote /\ s[Len(s)] = Quote
  THEN SubSeq(s, 2, Len(s) - 1) ELSE s

splitList(s) == {unquote(x) : x \in ToSet(splitUnquoted(s, ","))} \ {<<>>}

present(s) == unquote(s) \notin {<<>>, <<"{{ }}">>, <<"null">>, <<"undefined">>}
truthy(s) == unquote(s) \notin {<<>>, <<"false">>, <<"0">>, <<"null">>,
                                <<"undefined">>}

Includes(s, t) ==
  \E i \in 0 .. Len(s) - Len(t) : SubSeq(s, i + 1, i + Len(t)) = t

applyWord(op, left, right) ==
  LET l == unquote(left)
      r == unquote(right)
  IN  CASE op = "contains" -> Includes(l, r)
        [] op = "does not contain" -> ~Includes(l, r)
        [] op = "starts with" -> IsPrefix(r, l)
        [] op = "does not start with" -> ~IsPrefix(r, l)
        [] op = "ends with" -> IsSuffix(r, l)
        [] op = "does not end with" -> ~IsSuffix(r, l)
        [] op = "is in" -> l \in splitList(right)
        [] op = "is not in" -> l \notin splitList(right)
        [] op = "exists" -> present(left)
        [] op = "does not exist" -> ~present(left)

(* the first operator of the list that occurs, where it occurs first       *)
Found(s, ops) ==
  LET at(k) == {<<k, i>> : i \in Places(s, ops[k])}
      all == UNION {at(k) : k \in DOMAIN ops}
  IN  {[op |-> ops[f[1]], at |-> f[2]] :
         f \in {f \in all : \A h \in all :
                  f[1] < h[1] \/ (f[1] = h[1] /\ f[2] <= h[2])}}

compared(op, left, right) ==
  LET number(s) == IF Len(s) = 1 /\ s[1] \in DOMAIN Number
                   THEN {Number[s[1]]} ELSE {}
      holds(a, b) == CASE op = ">" -> a > b [] op = "<" -> a < b
                       [] op = ">=" -> a >= b [] op = "<=" -> a <= b
  IN  CASE op = "=" -> Answer(TRUE, left = right)
        [] op = "!=" -> Answer(TRUE, left # right)
        [] OTHER -> IF number(left) = {} \/ number(right) = {} THEN Unreadable
                    ELSE Answer(TRUE, \A a \in number(left) :
                                        \A b \in number(right) : holds(a, b))

comparison(s) ==
  LET before(f) == SubSeq(s, 1, f.at - 1)
      after(f) == SubSeq(s, f.at + 1, Len(s))
      word == Found(s, WordOps)
      symbol == Found(s, Symbols)
  IN  IF s = <<>> THEN Unreadable
      ELSE IF word # {}
      THEN LET f == CHOOSE w \in word : TRUE
           IN  IF f.op \in UnaryOps /\ after(f) # <<>> THEN Unreadable
               ELSE Answer(TRUE, applyWord(f.op, before(f), after(f)))
      ELSE IF symbol # {}
      THEN LET f == CHOOSE w \in symbol : TRUE
           IN  compared(f.op, unquote(before(f)), unquote(after(f)))
      ELSE Answer(TRUE, truthy(s))

(* a part that cannot be read makes the whole unreadable                   *)
All(answers) == IF \E a \in answers : ~a.ok THEN Unreadable
                ELSE Answer(TRUE, \A a \in answers : a.value)
Some(answers) == IF \E a \in answers : ~a.ok THEN Unreadable
                 ELSE Answer(TRUE, \E a \in answers : a.value)

evaluateCondition(s) ==
  Some({All({comparison(part) : part \in ToSet(splitUnquoted(way, "and"))}) :
          way \in ToSet(splitUnquoted(s, "or"))})
=============================================================================
