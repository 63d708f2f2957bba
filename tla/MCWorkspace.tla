----------------------------- MODULE MCWorkspace -----------------------------
(***************************************************************************)
(* An instance of Workspace for TLC: two runs that share a sandbox and the *)
(* mirror of its id, with a configuration directory whose entry is a       *)
(* directory in the sandbox and may be a file in the mirror, or become one.*)
(***************************************************************************)
EXTENDS Workspace

CONSTANTS r1, r2, pi, skill, doc, out, journal, blank, w1, w2, e1, s1, l1, sid

MCAbove == [p \in Path |-> CASE p = skill -> {pi} [] p = doc -> {pi, skill} [] OTHER -> {}]

\* A file whose name has a blank at its end is listed as out.
MCListedAs == [p \in Path |-> {IF p = blank THEN out ELSE p}]

MCId == [r \in Run |-> sid]
MCToken == 0..3 \cup Run
MCSeed == [r \in Run |-> IF r = r2 THEN out ELSE None]

Tool(r, op, p, sp, new, old) ==
  [run |-> r, op |-> op, path |-> p, spelling |-> sp, text |-> new, old |-> old]

MCDoes ==
  [c \in Call |->
     CASE c = w1 -> Tool(r1, "write", out, "sandbox", {1}, {})
       [] c = w2 -> Tool(r1, "write", doc, "relative", {1}, {})
       [] c = e1 -> Tool(r1, "edit", out, "host", {2}, {1})
       [] c = s1 -> Tool(r2, "bash", skill, "relative", {3}, {})
       [] OTHER -> Tool(r2, "look", doc, "skill", {}, {})]

Tree(isDir, files) ==
  [p \in Path |-> IF p \in isDir THEN Dir ELSE IF p \in files THEN {0} ELSE None]

\* A skill that is a directory; a shell or the application makes it a file.
Trees == {Tree({pi, skill}, {doc, journal, blank})}

\* What earlier sessions left: the skill as a file, or as the directory it is.
Mirrors == {Tree({pi}, {skill}), Tree({pi, skill}, {doc})}
=============================================================================
