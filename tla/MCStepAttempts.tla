---------------------------- MODULE MCStepAttempts ----------------------------
(* Bytes of two bits, IPv4 addresses of one byte, IPv6 addresses of four.  *)
EXTENDS StepAttemptsProps

Url(name, port) == [parses |-> TRUE, scheme |-> "https", userinfo |-> FALSE,
                    raw |-> <<"name", "name">>, literal |-> FALSE,
                    name |-> name, addr |-> <<>>, port |-> port]
Literal(a, raw) == [Url(<<>>, 443) EXCEPT !.literal = TRUE, !.addr = a, !.raw = raw]

Home     == Url(<<"api", "shop">>, 443)
Elsewhere == {Url(<<"api", "shop">>, 8443), Url(<<"db", "internal">>, 443),
              Literal(<<1>>, <<"decimal", "decimal", "decimal", "decimal">>),
              Literal(<<2>>, <<"decimal", "decimal", "decimal", "decimal">>),
              Literal(<<1>>, <<"hex">>),
              [Home EXCEPT !.parses = FALSE]}
Urls     == {Home} \cup Elsewhere

Names    == {{}, {<<0>>, <<2>>}, {<<1>>, <<1, 0, 0, 1>>}}
            \cup {{a} : a \in [1 .. 1 -> Byte]}
            \cup {{a} : a \in {<<0, 1, 0, 0>>, <<0, 0, 3, 3>>, <<0, 0, 3, 1>>, <<0, 0, 1, 0>>,
                             <<1, 1, 3, 3>>, <<1, 2, 0, 0>>, <<1, 3, 3, 3>>, <<2, 0, 0, 3>>}}
BlockedRanges == {[bytes |-> <<2>>, prefix |-> 1], [bytes |-> <<1, 2, 0, 0>>, prefix |-> 3]}
AllowedRanges == {[bytes |-> <<3>>, prefix |-> 2]}
Metadata == {[head |-> <<2>>, gap |-> TRUE, tail |-> <<3>>]}
Rules    == {[under |-> TRUE, labels |-> <<"internal">>]}

Http(m, headers, text) ==
  [kind |-> "http", filled |-> TRUE, url |-> Home, method |-> m, headers |-> headers,
   auth |-> headers = None, payload |-> None, text |-> text]
Ai(key, task, multiple, noMatch, fields) ==
  [kind |-> "ai", filled |-> TRUE, url |-> Home, key |-> key, task |-> task, multiple |-> multiple,
   categories |-> {"billing", "bug"}, noMatch |-> noMatch, fields |-> fields]
Email(to) == [kind |-> "email", filled |-> TRUE, to |-> to]
Ann == [valid |-> TRUE, address |-> "ann@shop", domain |-> "@shop"]

Score == [name |-> "score", type |-> "number", required |-> TRUE]
Urgent == [name |-> "urgent", type |-> "boolean", required |-> FALSE]

AllSteps == {Http("POST", None, "json"), Http("absent", "authorization", "json"),
             Http("DELETE", "plain", None), Http("POST", None, "prose"),
             Ai("saved", "classify", FALSE, "fail", {}),
             Ai(None, "classify", TRUE, "other", {Score, Urgent}),
             Email({Ann}), Email({Ann, [valid |-> TRUE, address |-> "eve@else", domain |-> "@else"]})}
Posts == {Http("POST", None, "json"), Http("POST", None, "prose")}

Value(is, names) == [is |-> is, names |-> names]
Models == {[category |-> c, categories |-> c, score |-> s, urgent |-> u] :
             c \in {Value("word", {"billing"}), Value("word", {"sales"}),
                    Value("absent", {}), Value("array", {"bug", "sales"})},
             s \in {Value("digits", {}), Value("prose", {}), Value("absent", {})},
             u \in {Value("yes", {}), Value("absent", {})}}

================================================================================
