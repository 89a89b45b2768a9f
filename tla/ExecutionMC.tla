---------------------------- MODULE ExecutionMC ----------------------------
(***************************************************************************)
(* The bundled catalog (one local, two Gemini models, one of them with web *)
(* access, and OpenAI without an adapter), and files and requests that     *)
(* bring about each routing and each way an edit goes wrong.               *)
(***************************************************************************)
EXTENDS WorkflowExecution

CONSTANTS local, fast, grounded, openai, fixture, none

MCOllama == {local}
MCGemini == {fast, grounded}
MCOpenAI == {openai}
MCWebModels == {grounded}
MCStructured == {local, fast, grounded, openai}
MCServed == {local, fast, grounded}

Plain(id, preferred, fallback) ==
    [id |-> id, agent |-> "writer", contract |-> "draft", resource |-> "prompt",
     preferred |-> preferred, fallback |-> fallback, web |-> "false", when |-> "always",
     checkpoint |-> "true"]

Research == [Plain("research", grounded, none) EXCEPT !.web = "from_request",
                                                      !.when = "requires_web",
                                                      !.checkpoint = "false"]
Write == Plain("write", local, fast)
Check == [Plain("check", openai, fast) EXCEPT !.web = "from_request", !.checkpoint = "false"]

Doc(list) == [syntax |-> "mapping", fields |-> "ok", id |-> "flow", iterations |-> 2, steps |-> list]

Base == Doc(<<Research, Write, Check>>)

MCFiles == {
    Base,
    Doc(<<Write, Research, Check>>),                                \* steps swapped
    Doc(<<Research, Check, Write>>),
    Doc(<<Research>>),                                              \* shortened
    Doc(<<Research, [Write EXCEPT !.contract = "final"], Check>>),  \* another contract
    Doc(<<Research, [Write EXCEPT !.fallback = grounded, !.web = "true"]>>),
    Doc(<<[Research EXCEPT !.web = "true", !.when = "always", !.fallback = fast]>>),
    Doc(<<[Research EXCEPT !.web = "true", !.when = "always"],      \* the web asked for
          [Write EXCEPT !.fallback = local]>>),                     \* one model named twice
    Doc(<<Write, Write>>),                                          \* one id twice
    [Base EXCEPT !.syntax = "invalid"], [Base EXCEPT !.fields = "missing"],
    [Base EXCEPT !.fields = "unknown", !.id = "draft"],
    Doc(<<[Write EXCEPT !.agent = "retired", !.resource = "lost"]>>),
    Doc(<<[Write EXCEPT !.when = "weekdays", !.contract = "essay"]>>) }

Q(web, mode, research, sensitive, long, human) ==
    [web |-> web, mode |-> mode, research |-> research, sensitive |-> sensitive,
     long |-> long, human |-> human]

MCRequests == {
    Q(TRUE, "auto", "gemini_grounded", FALSE, TRUE, {}),
    Q(TRUE, "auto", "gemini_grounded", FALSE, FALSE, {"research"}),
    Q(TRUE, "auto", "human_bridge", TRUE, FALSE, {}),
    Q(TRUE, "local", "none", TRUE, FALSE, {}),
    Q(FALSE, "auto", "", FALSE, FALSE, {"write"}),
    Q(FALSE, "cloud", "", TRUE, FALSE, {}) }

MCTasks ==
    {TaskOf(s, q) : s \in UNION {{d.steps[i] : i \in DOMAIN d.steps} : d \in MCFiles},
                    q \in MCRequests}

MCIdentifiers == {"flow", "research", "write", "check"}
MCContracts == {"draft", "final"}
=============================================================================
