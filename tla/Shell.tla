-------------------------------- MODULE Shell -------------------------------
(***************************************************************************)
(* The shell (usermode/bin/sh.c): a line of words becomes commands, the    *)
(* commands become processes joined by pipes, and the shell waits for      *)
(* them.  A system call is one step; the processes run interleaved.        *)
(*                                                                         *)
(*   sh      [pc, cmds, idx, pids, pgid]: the variables of handle_command  *)
(*   child   the process of each command; "leader" is the pipeline_pgid    *)
(*           it was forked with, "todo" what it still has to write         *)
(*   group   the process group of each child, 0 for the shell's            *)
(*   holds   <<process, pipe, side>>: the pipe ends open in a process, the *)
(*           shell being 0                                                 *)
(*   buf     the bytes in each pipe                                        *)
(*   fg      the foreground group of the terminal                          *)
(***************************************************************************)
EXTENDS Integers, Sequences, SequencesExt

CONSTANTS Lines,             \* the lines that are entered, as words
          Assignments,       \* the words with a "=" in them
          Missing,           \* the names execvp does not find
          Sources,           \* the programs that write and never read
          PIPE_BUF_SIZE,
          Bytes,             \* what a source writes before it exits
          MaxCmd             \* bound: the commands of a line

VARIABLES sh, child, group, holds, buf, fg

vars == <<sh, child, group, holds, buf, fg>>

Child == 1 .. MaxCmd
Side == {"r", "w"}
NoName == ""

----------------------------------------------------------------------------
NewCommand == [name |-> NoName, input |-> NoName, output |-> NoName]

\* The words so far, the redirection that waits for its path, and whether an
\* assignment is still one.
ParseWord(acc, word) ==
    LET n == Len(acc.cmds)
    IN  IF acc.redirect \in {">", ">>"} THEN [acc EXCEPT !.cmds[n].output = word, !.redirect = NoName]
        ELSE IF acc.redirect = "<" THEN [acc EXCEPT !.cmds[n].input = word, !.redirect = NoName]
        ELSE IF word \in {">", ">>", "<"} THEN [acc EXCEPT !.redirect = word]
        ELSE IF word = "|" THEN [acc EXCEPT !.cmds = Append(@, NewCommand), !.envs = TRUE]
        ELSE IF acc.envs /\ word \in Assignments THEN acc
        ELSE [acc EXCEPT !.envs = FALSE, !.cmds[n].name = IF @ = NoName THEN word ELSE @]

\* The commands of a line of words.
parse_command(words) ==
    FoldLeft(ParseWord, [cmds |-> <<NewCommand>>, redirect |-> NoName, envs |-> TRUE], words).cmds

Pipes(cmds) == 1 .. Len(cmds) - 1
AtPrompt == [pc |-> "prompt", cmds |-> <<>>, idx |-> 1, pids |-> <<>>, pgid |-> 0]
NoChild == [pc |-> "none", leader |-> 0, todo |-> 0]

Init == /\ sh = AtPrompt
        /\ child = [c \in Child |-> NoChild]
        /\ group = [c \in Child |-> 0]
        /\ holds = {} /\ buf = [p \in Child |-> 0] /\ fg = 0

\* handle_command up to the pipes.  The shell has waited for the line in a read, so the
\* processes of the last one are destroyed.
handle_command(words) ==
    LET cmds == parse_command(words)
    IN  /\ sh.pc = "prompt" /\ \A c \in Child : child[c].pc = "none"
        /\ IF words = <<"exit">> THEN sh' = [sh EXCEPT !.pc = "exited"] /\ UNCHANGED <<holds, buf>>
           ELSE IF \A c \in DOMAIN cmds : cmds[c].name = NoName THEN UNCHANGED <<sh, holds, buf>>
           ELSE /\ sh' = [AtPrompt EXCEPT !.pc = "fork", !.cmds = cmds]
                /\ holds' = {0} \X Pipes(cmds) \X Side
                /\ buf' = [p \in Child |-> 0]
        /\ UNCHANGED <<child, group, fg>>

\* A command without a name and "cd" have no process.
Skip ==
    /\ sh.pc = "fork" /\ sh.idx <= Len(sh.cmds)
    /\ sh.cmds[sh.idx].name \in {NoName, "cd"}
    /\ sh' = [sh EXCEPT !.idx = @ + 1]
    /\ UNCHANGED <<child, group, holds, buf, fg>>

\* fork: the child has the ends the shell has, its group and its pipeline_pgid.
Fork ==
    LET c == sh.idx
    IN  /\ sh.pc = "fork" /\ c <= Len(sh.cmds)
        /\ sh.cmds[c].name \notin {NoName, "cd"}
        /\ \/ /\ sh' = [sh EXCEPT !.pc = "setpgid"]
              /\ child' = [child EXCEPT ![c] = [pc |-> "forked", leader |-> sh.pgid, todo |-> Bytes]]
              /\ holds' = holds \cup {<<c, h[2], h[3]>> : h \in {x \in holds : x[1] = 0}}
              /\ group' = [group EXCEPT ![c] = 0]
           \/ /\ sh' = [sh EXCEPT !.idx = @ + 1]      \* fork failed
              /\ UNCHANGED <<child, holds, group>>
        /\ UNCHANGED <<buf, fg>>

\* The parent's half of the loop.
SetGroup ==
    LET c == sh.idx
        pgid == IF sh.pgid = 0 THEN c ELSE sh.pgid
    IN  /\ sh.pc = "setpgid"
        /\ group' = [group EXCEPT ![c] = pgid]
        /\ sh' = [sh EXCEPT !.pc = "fork", !.idx = @ + 1, !.pgid = pgid, !.pids = Append(@, c)]
        /\ UNCHANGED <<child, holds, buf, fg>>

CloseAll ==
    /\ sh.pc = "fork" /\ sh.idx > Len(sh.cmds)
    /\ holds' = {h \in holds : h[1] # 0}
    /\ sh' = [sh EXCEPT !.pc = "tcsetpgrp"]
    /\ UNCHANGED <<child, group, buf, fg>>

SetForeground ==
    /\ sh.pc = "tcsetpgrp"
    /\ fg' = IF sh.pgid > 0 THEN sh.pgid ELSE fg
    /\ sh' = [sh EXCEPT !.pc = "wait"]
    /\ UNCHANGED <<child, group, holds, buf>>

\* waitpid for the processes in their order.
Wait ==
    /\ sh.pc = "wait" /\ sh.pids # <<>>
    /\ child[Head(sh.pids)].pc = "zombie"
    /\ child' = [child EXCEPT ![Head(sh.pids)].pc = "dead"]
    /\ sh' = [sh EXCEPT !.pids = Tail(@)]
    /\ UNCHANGED <<group, holds, buf, fg>>

Finish ==
    /\ sh.pc = "wait" /\ sh.pids = <<>>
    /\ fg' = 0 /\ sh' = AtPrompt
    /\ UNCHANGED <<child, group, holds, buf>>

----------------------------------------------------------------------------
\* Mutant: the write end of the pipe it reads from is not closed.
KeepsBoth(c) ==
    {h \in holds : /\ h[1] = c
                   /\ \/ h[2] = c - 1 /\ sh.cmds[c].input = NoName
                      \/ h[2] = c /\ h[3] = "w" /\ sh.cmds[c].output = NoName}

\* The ends a child keeps: dup2 of its two, and a redirection closes the one it
\* replaces.
Kept(c) ==
    {h \in holds : /\ h[1] = c
                   /\ \/ h[2] = c - 1 /\ h[3] = "r" /\ sh.cmds[c].input = NoName
                      \/ h[2] = c /\ h[3] = "w" /\ sh.cmds[c].output = NoName}

Others(c) == {h \in holds : h[1] # c}

\* Mutant: only the parent sets the group.
NoSetpgid(c) == group[c]

OwnGroup(c) == IF child[c].leader = 0 THEN c ELSE child[c].leader

\* exit: a zombie keeps its descriptors.
Exit(c) == child' = [child EXCEPT ![c].pc = "zombie"]

\* setpgid, the pipes, the redirections, and execvp, which may fail.
Exec(c) ==
    /\ child[c].pc = "forked"
    /\ group' = [group EXCEPT ![c] = OwnGroup(c)]
    /\ IF sh.cmds[c].name \in Missing
       THEN Exit(c)
       ELSE child' = [child EXCEPT ![c].pc = "running"]
    /\ holds' = Others(c) \cup Kept(c)
    /\ UNCHANGED <<sh, buf, fg>>

HasOpen(p, side) == \E h \in holds : h[2] = p /\ h[3] = side

\* The bytes of the pipes after a write by c: as many as fit, none when no process, be
\* it a zombie, has the read end.
Written(c, b, n) ==
    IF <<c, c, "w">> \in holds /\ HasOpen(c, "r")
    THEN [b EXCEPT ![c] = IF @ + n > PIPE_BUF_SIZE THEN PIPE_BUF_SIZE ELSE @ + n]
    ELSE b

\* A program that writes what it has, and exits.
Generate(c) ==
    /\ child[c].pc = "running"
    /\ sh.cmds[c].name \in Sources \/ <<c, c - 1, "r">> \notin holds
    /\ IF child[c].todo = 0 THEN Exit(c) /\ UNCHANGED buf
       ELSE /\ buf' = Written(c, buf, 1)
            /\ child' = [child EXCEPT ![c].todo = @ - 1]
    /\ UNCHANGED <<sh, group, holds, fg>>

\* A filter: what it reads it writes; at the end of the file it exits.  While the pipe
\* is empty and some process can write to it, the read does not return.
Filter(c) ==
    /\ child[c].pc = "running"
    /\ sh.cmds[c].name \notin Sources /\ <<c, c - 1, "r">> \in holds
    /\ buf[c - 1] > 0 \/ ~HasOpen(c - 1, "w")
    /\ IF buf[c - 1] = 0 THEN Exit(c) /\ UNCHANGED buf
       ELSE buf' = Written(c, [buf EXCEPT ![c - 1] = 0], buf[c - 1]) /\ UNCHANGED child
    /\ UNCHANGED <<sh, group, holds, fg>>

\* cleanup_dead_tasks, at a task switch after waitpid: the descriptors are closed.
Destroy(c) ==
    /\ child[c].pc = "dead"
    /\ holds' = Others(c) /\ child' = [child EXCEPT ![c] = NoChild]
    /\ UNCHANGED <<sh, group, buf, fg>>

ShellStep == Skip \/ Fork \/ SetGroup \/ CloseAll \/ SetForeground \/ Wait \/ Finish
ChildStep(c) == Exec(c) \/ Generate(c) \/ Filter(c) \/ Destroy(c)

Next == \/ \E words \in Lines : handle_command(words)
        \/ ShellStep
        \/ \E c \in Child : ChildStep(c)

\* The scheduler gives every process that can run its turn.
Fairness == WF_vars(ShellStep) /\ \A c \in Child : WF_vars(ChildStep(c))

Spec == Init /\ [][Next]_vars /\ Fairness

----------------------------------------------------------------------------
\* Every line of programs that stop writing comes to its end.  No reader waits for a
\* write end that the shell or a child has left open, whichever commands are missing,
\* skipped, redirected or could not be forked.  A zombie closes its ends only after the
\* shell has waited for it, so this rests on the order in which the shell waits.
ShellReturns == (sh.pc \notin {"prompt", "exited"}) ~> (sh.pc = "prompt")

\* At the prompt every process of the line has been waited for, no living process holds
\* an end of a pipe, and the terminal belongs to the shell.
NothingLeft == sh.pc = "prompt" => /\ fg = 0
                                   /\ \A c \in Child : child[c].pc \in {"none", "dead"}
                                   /\ \A h \in holds : h[1] # 0 /\ child[h[1]].pc = "dead"

\* A child never executes its program in the shell's group, and every process the shell
\* waits for is in the pipeline's one group, whichever of the two calls of setpgid came
\* last: with the terminal handed over, Ctrl-C reaches the whole pipeline.
OneGroup == /\ \A c \in Child : child[c].pc = "running" => group[c] # 0
            /\ sh.pc = "wait" => \A i \in DOMAIN sh.pids : group[sh.pids[i]] = sh.pgid
            /\ sh.pc = "wait" /\ sh.pids # <<>> => fg = sh.pgid
=============================================================================
