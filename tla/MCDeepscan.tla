------------------------------ MODULE MCDeepscan -----------------------------
(***************************************************************************)
(* Captures for TLC: flows of two hosts with bad headers, cookies and CORS *)
(* answers, secrets in bodies, queries and cookies, an echoed parameter,   *)
(* one with no answer and one that cannot be read.                         *)
(***************************************************************************)
EXTENDS Deepscan, TLC

Mark(is) == [is |-> is, of |-> "", field |-> <<>>]
Echo(value) == [is |-> "echo", of |-> value, field |-> <<>>]
FieldMark(p) == [is |-> "field", of |-> "", field |-> p]
Param(name, role, value) ==
    [name |-> name, role |-> role, value |-> value, random |-> value = "r", long |-> TRUE]
Body(kind, marks) == [kind |-> kind, marks |-> marks, whole |-> TRUE]

PlainReply == [status |-> 200,
               present |-> {"missing-csp", "missing-xcto", "missing-xfo",
                            "missing-referrer-policy"},
               cookies |-> {}, cors |-> "none", banners |-> {}, auth |-> "none",
               sensitive |-> FALSE, body |-> Body("html", <<Mark("text")>>)]
PlainFlow == [readable |-> TRUE, method |-> "GET", host |-> "a", url |-> "u1", path |-> "p",
              https |-> TRUE, query |-> {}, cookies |-> {}, auth |-> "none",
              sensitive |-> FALSE, body |-> Body("text", <<>>), reply |-> PlainReply]

Password == FieldMark(Param("pw", "secret", "v"))
Cookie(name, lacks) == [name |-> name, missing |-> {lacks}]
WeakCookies == {Cookie("c1", "Secure"), Cookie("c2", "HttpOnly"), Cookie("c3", "HttpOnly")}
F1 == [PlainFlow EXCEPT !.reply.cookies = WeakCookies, !.reply.cors = "wildcard", !.auth = "bearer"]
F2 == [PlainFlow EXCEPT !.method = "POST", !.body = Body("json", <<Password, Mark("provider")>>),
                        !.reply.body = Body("html", <<Mark("error"), Echo("v"), Mark("jwt")>>)]
F3 == [PlainFlow EXCEPT !.host = "b", !.reply = NoReplySeen,
                        !.query = {Param("t", "secret", "r"), Param("u", "username", "r")},
                        !.cookies = {Param("sid", "credential", "v")}]
F4 == [F3 EXCEPT !.readable = FALSE]
F5 == [F1 EXCEPT !.reply.cookies = {}, !.reply.cors = "reflected", !.reply.banners = {"server", "x-powered-by"},
                 !.https = FALSE, !.auth = "basic-auth", !.query = {Param("x", "plain", "r")}]
\* A secret past the cap.
F6 == [F2 EXCEPT !.body = Body("json", <<Password, Mark("text"), Mark("text"), Mark("provider")>>)]

ModelHars == {<<F1>>, <<F2, F3>>, <<F4, F5>>, <<F3, F6, F1>>}
ModelAllow == {<<>>, <<"b">>}
ModelHosts2 == <<"a", "b">>

=============================================================================
