--------------------------- MODULE MCPatternRuntime ---------------------------
(* Small instances of PatternRuntime for TLC. *)
EXTENDS PatternRuntime

S(id, kind, needs, gives, onFail, guards) ==
    [id |-> id, kind |-> kind, needs |-> needs, gives |-> gives,
     onFail |-> onFail, guards |-> guards, body |-> <<>>, max |-> 0]
Loop(id, gives, onFail, body, max) ==
    [S(id, "loop", {}, gives, onFail, {}) EXCEPT !.body = body, !.max = max]
G(check, hard) == [check |-> check, hard |-> hard]

\* A loop whose body checks what it made and escalates; a step that needs what
\* the step before the loop gave.
Audit == <<S("scan", "shell", {}, "facts", "continue", {G("post", TRUE)}),
           Loop("dig", "depth", "break",
                <<S("probe", "llm", {}, "lead", "continue", {}),
                  S("verify", "check", {"lead"}, None, "escalate", {})>>, 2),
           S("report", "judge", {"facts"}, None, "escalate", {G("both", FALSE)})>>

\* Loops in loops; a step that needs what a loop gives.
Nested == <<Loop("outer", "found", "continue",
                 <<Loop("inner", None, "break",
                        <<S("try", "module", {}, None, "break", {})>>, 2),
                   S("note", "callable", {}, None, "continue", {})>>, 2),
            S("send", "shell", {"found"}, None, "break", {G("pre", FALSE)})>>

\* A step that only adds to the context, a loop without a body, one without a
\* number of iterations, and a kind nobody has registered.
Broken == <<S("brief", "apply", {}, None, "continue", {}),
            Loop("empty", None, "continue", <<>>, 1),
            Loop("vague", None, "continue", Nested[1].body, None),
            S("odd", "poem", {}, None, "continue", {})>>

AllWorkflows == {Audit, Nested, Broken}
AllBodies == {Audit[2].body, Nested[1].body, Nested[1].body[1].body}
=============================================================================
