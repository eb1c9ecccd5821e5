------------------------------- MODULE Fuzzer -------------------------------
(***************************************************************************)
(* The injection fuzzer: InjectionFuzzer.run and the verdicts of its       *)
(* detectors (pentestiq/fuzzing).  A target is what it answers to each     *)
(* kind of probe; a payload is only the kind of probe it belongs to.       *)
(***************************************************************************)
EXTENDS Integers, FiniteSets

CONSTANTS
    NPoints,       \* injection points found
    MaxPoints,     \* points tried
    MaxRequests,   \* the budget
    Enabled,       \* the detectors in use
    Cost,          \* requests a detector sends to a point, at most
    Targets        \* behaviours of an injection point

Kinds == {"plain", "syntax", "true", "false", "sleep", "nosleep", "marker", "eval", "file",
          "header", "redirect"}

\* An answer: its status (0: none came), what it shows of the signs detectors
\* look for, the length of its text, and whether it took as long as a sleep.
Answer == [status: Nat, signs: SUBSET STRING, length: Nat, slow: BOOLEAN]
NoAnswer == [status |-> 0, signs |-> {}, length |-> 0, slow |-> FALSE]

\* "calls": what is injected makes the target call the collaborator.
Behaviour == [answer: [Kinds -> Answer], calls: BOOLEAN]

Detectors == {"sqli-error", "xss-reflected", "path-traversal", "ssti", "sqli-boolean",
              "sqli-time", "cmd-injection", "nosqli", "crlf", "open-redirect", "xxe", "xpath",
              "ldap", "code-injection", "ssi", "css-injection"}

\* These send their own requests, which the budget does not see.
OwnRequests == {"crlf", "open-redirect", "xxe"}

ASSUME FuzzerAssumption ==
    /\ {NPoints, MaxPoints, MaxRequests} \subseteq Nat
    /\ Enabled \subseteq Detectors
    /\ Cost \in [Enabled -> Nat]
    /\ \A t \in Targets : \A k \in Kinds : t.answer[k].status \in Nat /\ t.answer[k].length \in Nat

-----------------------------------------------------------------------------
(***************************************************************************)
(* Detectors: verdicts on a target t and the baseline b of the point.      *)
(***************************************************************************)
Shows(a, sign) == a.status # 0 /\ sign \in a.signs

\* _similar(a, b) >= h/100: same status, and lengths close to each other.
Similar(a, b, h) ==
    LET longer == IF a.length > b.length THEN a.length ELSE b.length
        shorter == a.length + b.length - longer
    IN a.status = b.status /\ 100 * (longer - shorter) <= (100 - h) * longer

BooleanBlind(t, b) ==
    LET yes == t.answer["true"]
        no == t.answer["false"]
    IN  /\ b.status # 0 /\ yes.status # 0 /\ no.status # 0
        /\ Similar(b, yes, 98) /\ ~Similar(b, no, 90) /\ ~Similar(yes, no, 90)

TimeBlind(t) ==
    LET real == t.answer["sleep"]
        control == t.answer["nosleep"]
    IN real.status # 0 /\ real.slow /\ control.status # 0 /\ ~control.slow

\* Seeded fault: the error text is not looked for in the baseline.
SqliErrorAnywhere(t, b) == Shows(t.answer["syntax"], "sql error")

SqliError(t, b) == Shows(t.answer["syntax"], "sql error") /\ "sql error" \notin b.signs
SqliBoolean(t, b) == BooleanBlind(t, b)
SqliTime(t) == TimeBlind(t)
XssReflected(t) == Shows(t.answer["marker"], "raw marker")
PathTraversal(t) == Shows(t.answer["file"], "system file")
Ssti(t) == Shows(t.answer["eval"], "product")
CmdInjection(t) == t.calls \/ TimeBlind(t)
NoSqli(t, b) == Shows(t.answer["syntax"], "nosql error") \/ BooleanBlind(t, b)
Crlf(t) == Shows(t.answer["header"], "marker header")
OpenRedirect(t) == Shows(t.answer["redirect"], "marker host")
Xxe(t) == t.calls \/ Shows(t.answer["file"], "system file")
Xpath(t, b) == Shows(t.answer["syntax"], "xpath error") \/ BooleanBlind(t, b)
Ldap(t) == Shows(t.answer["syntax"], "ldap error")
CodeInjection(t, b) ==
    \/ Shows(t.answer["eval"], "product") /\ "product" \notin b.signs
    \/ Shows(t.answer["syntax"], "code error") /\ "code error" \notin b.signs
Ssi(t) == t.calls \/ TimeBlind(t)
CssInjection(t) == Shows(t.answer["marker"], "styled marker")

Hits(t, b) ==
    {d \in Enabled :
        CASE d = "sqli-error" -> SqliError(t, b)    [] d = "xss-reflected" -> XssReflected(t)
          [] d = "path-traversal" -> PathTraversal(t) [] d = "ssti" -> Ssti(t)
          [] d = "sqli-boolean" -> SqliBoolean(t, b) [] d = "sqli-time" -> SqliTime(t)
          [] d = "cmd-injection" -> CmdInjection(t) [] d = "nosqli" -> NoSqli(t, b)
          [] d = "crlf" -> Crlf(t)                  [] d = "open-redirect" -> OpenRedirect(t)
          [] d = "xxe" -> Xxe(t)                    [] d = "xpath" -> Xpath(t, b)
          [] d = "ldap" -> Ldap(t)                  [] d = "code-injection" -> CodeInjection(t, b)
          [] d = "ssi" -> Ssi(t)                    [] d = "css-injection" -> CssInjection(t)}

-----------------------------------------------------------------------------
(***************************************************************************)
(* InjectionFuzzer.run                                                     *)
(***************************************************************************)
VARIABLES
    target,      \* the behaviour of each point
    point,       \* the point under test, 0 before the first
    base,        \* its baseline
    pending,     \* detectors still to be run on it
    sent,        \* _sent
    findings     \* <<point, detector>>

fuzzVars == <<target, point, base, pending, sent, findings>>

Tried == IF NPoints < MaxPoints THEN NPoints ELSE MaxPoints

FuzzTypeOK ==
    /\ target \in [1..NPoints -> Targets]
    /\ point \in 0..Tried
    /\ base.status \in Nat
    /\ pending \subseteq Enabled
    /\ sent \in Nat
    /\ findings \subseteq (1..point) \X Enabled

FuzzInit ==
    /\ target \in [1..NPoints -> Targets]
    /\ point = 0
    /\ base = NoAnswer
    /\ pending = {}
    /\ sent = 0
    /\ findings = {}

\* The budget is looked at once per point; the baseline may get lost.
NextPoint ==
    /\ pending = {} /\ point < Tried
    /\ sent < MaxRequests
    /\ point' = point + 1
    /\ sent' = sent + 1
    /\ base' \in {target[point + 1].answer["plain"], NoAnswer}
    /\ pending' = Enabled
    /\ UNCHANGED <<target, findings>>

\* A detector sends some requests and hits, misses or raises.
Probe(d) ==
    /\ d \in pending
    /\ pending' = pending \ {d}
    /\ sent' \in IF d \in OwnRequests THEN {sent} ELSE sent..sent + Cost[d]
    /\ \/ findings' = findings \union
                      (IF d \in Hits(target[point], base) THEN {<<point, d>>} ELSE {})
       \/ UNCHANGED findings
    /\ UNCHANGED <<target, point, base>>

FuzzNext == NextPoint \/ \E d \in Enabled : Probe(d)

FuzzSpec == FuzzInit /\ [][FuzzNext]_fuzzVars

-----------------------------------------------------------------------------

Comparing == {"sqli-error", "sqli-boolean", "sqli-time", "code-injection"}

Indifferent(t) == ~t.calls /\ \A k \in Kinds : t.answer[k] = t.answer["plain"]

\* A point that answers everything alike, however odd its answer, is not accused
\* by a detector that works by comparison, as long as its baseline came through.
IndifferentPointIsClean ==
    \A f \in findings :
        Indifferent(target[f[1]]) /\ f[2] \in Comparing /\ f[1] = point => base = NoAnswer

=============================================================================
