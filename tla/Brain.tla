-------------------------------- MODULE Brain --------------------------------
(***************************************************************************)
(* What the adapters of host/brain.ts and host/adapters/ollama.ts make of  *)
(* the reply of a model: the instruction of the next tick.                 *)
(***************************************************************************)
EXTENDS Tick, Naturals

CONSTANTS
  Tools, Files,   \* what instructions may name
  noPath, outside \* no path, and one outside of the sandbox

Paths == Files \cup {noPath, outside}

ToolCall(tool, path) == [kind |-> "CALL_TOOL", arg |-> [tool |-> tool, path |-> path]]
Return(value) == [kind |-> "RETURN", arg |-> [value |-> value]]
Plain(kind) == [kind |-> kind, arg |-> null]

Instructions ==
  {ToolCall(t, p) : t \in Tools, p \in Paths} \cup {Return("value")}
    \cup {Plain(kind) : kind \in {"NOOP", "DELEGATE", "UNKNOWN"}}

\* The JSON of an instruction, fenced or not, or of null; text that is no JSON, and
\* is nothing like it or like a tool call or a return; or an error or nothing.
Replies == Instructions \cup
  {Plain(kind) : kind \in {"NULL", "TEXT", "BROKEN_RETURN", "ERROR"}}
    \cup {[ToolCall(t, noPath) EXCEPT !.kind = "BROKEN_CALL"] : t \in Tools}

\* Which provider the constructor takes, given the keys in the environment.
activeProvider(keys) ==
  IF "openai" \in keys THEN "openai"
  ELSE IF "anthropic" \in keys THEN "anthropic"
  ELSE IF "gemini" \in keys THEN "gemini"
  ELSE "mock"

\* What goes wrong is returned; null is an instruction to it.
evaluate(reply) ==
  IF reply.kind \in {"TEXT", "BROKEN_RETURN", "BROKEN_CALL", "ERROR"}
    THEN Return("KERNEL_PANIC") ELSE reply

\* OllamaAdapter: the kind and the tool are searched for in what is no JSON.
parseBrokenJson(reply) ==
  CASE reply.kind = "TEXT" -> Plain("NOOP")
    [] reply.kind = "BROKEN_RETURN" -> Return("value")
    [] reply.kind = "BROKEN_CALL" -> ToolCall(reply.arg.tool, noPath)
    [] OTHER -> reply

ollamaEvaluate(reply) ==
  IF reply.kind = "ERROR" THEN Return("KERNEL_PANIC") ELSE parseBrokenJson(reply)

\* The scripted answers, by the length of the context.
mockEvaluate(stepCount) ==
  CASE stepCount = 0 -> ToolCall("host.fs.list_dir", noPath)
    [] stepCount = 1 -> ToolCall("host.fs.write_file", "app.js")
    [] stepCount = 2 -> ToolCall("host.fs.write_file", "README.md")
    [] OTHER -> Return("value")

\* The instructions that a brain may come up with.
Ideas(brain, stepCount) ==
  CASE brain = "mock" -> {mockEvaluate(stepCount)}
    [] brain = "ollama" -> {ollamaEvaluate(r) : r \in Replies}
    [] OTHER -> {evaluate(r) : r \in Replies}
=============================================================================
