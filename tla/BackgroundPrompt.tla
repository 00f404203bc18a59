--------------------------- MODULE BackgroundPrompt ---------------------------
(***************************************************************************)
(* A prompt that the companion server runs in the background, with a       *)
(* client of its own (runDetachedBackgroundPrompt() in                     *)
(* codexGenerationRuntimeService.ts): a commit message, say.  It starts a  *)
(* thread, waits for the end of a turn from before it starts the turn, and *)
(* in the end archives the thread and closes the client.                   *)
(*                                                                         *)
(* The process may end, a request may fail or time out, and the wait may   *)
(* time out.  A wait that times out while nobody awaits it is an unhandled *)
(* rejection, which ends the server: Node's default, and the server        *)
(* installs no handler.  Bound: the next prompt begins when the wait of    *)
(* the last one is over.                                                   *)
(***************************************************************************)

VARIABLES
  prompt,     \* where the prompt is
  process,    \* the client's process runs
  waiter      \* waitForNotification(): none, armed, or done by the notification

promptVars == <<prompt, process, waiter>>

PromptTypeOK ==
  /\ prompt \in {"idle", "starting", "turning", "awaiting", "reading", "archiving",
                 "archived", "closing"}
  /\ process \in BOOLEAN /\ waiter \in {"none", "armed", "done"}

PromptInit == prompt = "idle" /\ process = FALSE /\ waiter = "none"

-------------------------------------------------------------------------------
\* thread/start starts the process.
startPrompt ==
  /\ prompt = "idle" /\ waiter = "none"
  /\ prompt' = "starting" /\ process' = TRUE
  /\ UNCHANGED waiter

\* The wait begins, and turn/start is sent.
threadStarted ==
  /\ prompt = "starting" /\ process
  /\ prompt' = "turning" /\ waiter' = "armed"
  /\ UNCHANGED <<process>>

turnStarted ==
  /\ prompt = "turning" /\ process
  /\ prompt' = "awaiting"
  /\ UNCHANGED <<process, waiter>>

turnCompleted ==
  /\ process /\ waiter = "armed" /\ prompt \in {"turning", "awaiting"}
  /\ waiter' = "done"
  /\ UNCHANGED <<prompt, process>>

\* The wait is over: the answer is there, or the thread has to be read.
completed ==
  /\ prompt = "awaiting" /\ waiter = "done"
  /\ waiter' = "none"
  /\ \/ prompt' = "archiving" /\ UNCHANGED process
     \/ prompt' = "reading" /\ process' = TRUE

threadRead ==
  /\ prompt = "reading" /\ prompt' = "archiving"
  /\ UNCHANGED <<process, waiter>>

\* A request fails or times out.  A thread that was not started is not archived.
requestFails ==
  /\ prompt \in {"starting", "turning"}
  /\ prompt' = IF prompt = "starting" THEN "closing" ELSE "archiving"
  /\ waiter' = IF waiter = "done" THEN "none" ELSE waiter
  /\ UNCHANGED <<process>>

waitTimesOut ==
  /\ prompt = "awaiting" /\ waiter = "armed"
  /\ prompt' = "archiving" /\ waiter' = "none"
  /\ UNCHANGED process

\* The wait times out and nobody awaits it.
unhandledRejection == waiter = "armed" /\ prompt # "awaiting"

\* Mutant: the client is closed only if no thread was started.
archiveThreadOnly ==
  /\ prompt = "archiving" /\ prompt' = "idle" /\ process' = TRUE
  /\ UNCHANGED waiter

\* thread/archive, which starts a process if the old one has ended.  Its answer, or
\* its failure, is the same to the prompt.
archiveThread ==
  /\ prompt = "archiving" /\ prompt' = "archived" /\ process' = TRUE
  /\ UNCHANGED waiter

archived ==
  /\ prompt = "archived" /\ prompt' = "closing"
  /\ UNCHANGED <<process, waiter>>

closeClient ==
  /\ prompt = "closing" /\ prompt' = "idle" /\ process' = FALSE
  /\ UNCHANGED waiter

promptProcessExits ==
  /\ process /\ process' = FALSE
  /\ UNCHANGED <<prompt, waiter>>

PromptRestart == prompt' = "idle" /\ process' = FALSE /\ waiter' = "none"

PromptStart == startPrompt \/ promptProcessExits

PromptStep ==
  \/ threadStarted \/ turnStarted \/ turnCompleted \/ completed \/ threadRead
  \/ requestFails \/ waitTimesOut \/ archiveThread \/ archived \/ closeClient

-------------------------------------------------------------------------------
\* When a prompt has ended, however it did, its process has ended with it.
PromptLeavesNoProcess == prompt = "idle" => ~process
===============================================================================
