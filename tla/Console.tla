------------------------------ MODULE Console ------------------------------
(***************************************************************************)
(* The console task of src/kernel/console.c: the line editor of            *)
(* console_readline(), the history it keeps in a ring buffer (module       *)
(* RingBuf, whose elements are the lines), and the working directory that  *)
(* cd changes together with the path shown in the prompt.                  *)
(*                                                                         *)
(* Keys arrive decoded (module UartRx decodes them).  A line is what is    *)
(* before its terminating NUL; it is the program's buf, and Len(line) its  *)
(* len.  Which command a line names is left open.                          *)
(***************************************************************************)
EXTENDS RingBuf, SequencesExt

CONSTANTS Char,      \* printable characters
          Del,       \* the character 127
          LineMax,   \* CONSOLE_LINE_MAX
          Name,      \* names of directories, sequences of characters
          PathMax,   \* 254, the longest path that fs_path is let grow to
          MaxDepth   \* bound: the volume's nesting of directories

ASSUME ConsoleAssumption ==
  /\ Del \notin Char /\ "/" \notin Char
  /\ LineMax \in Nat \ {0} /\ PathMax \in Nat \ {0} /\ MaxDepth \in Nat
  /\ \A n \in Name : n \in Seq(Char) /\ n # <<>>
  /\ Elem = SeqOf(Char \cup {Del}, LineMax - 1)     \* char[CONSOLE_LINE_MAX]

VARIABLES
  at,         \* "key", "recall", "is_full", "drop", "push" or "command"
  line,
  saved,      \* live input saved while browsing history
  hist_pos,   \* 0 = live input; 1+ = history offset
  new_pos,
  screen,     \* the terminal's line behind the prompt
  fs_cwd,     \* the directory, by the names that lead to it from the root
  fs_path,
  entered,    \* history variable: the last lines given to history_push()
  live        \* history variable: the line last edited at hist_pos 0

editor_vars == <<line, saved, hist_pos, new_pos>>
fs_vars == <<fs_cwd, fs_path>>
console_vars == <<at, editor_vars, screen, fs_vars, entered, live>>

-----------------------------------------------------------------------------
(* The terminal.  text is what stands between the prompt and the cursor.   *)
(* It is torn, until the next prompt, once the cursor has been moved into  *)
(* the prompt or a character without a glyph has been sent to it.          *)
Blank == [text |-> <<>>, torn |-> FALSE]

\* mini_uart_send() of every character of s.
Shown(scr, s) == [text |-> scr.text \o s, torn |-> scr.torn \/ Del \in ToSet(s)]

\* n times '\b', ' ' and '\b': line_clear(n), and with n = 1 one deletion.
Erased(scr, n) ==
  [text |-> SubSeq(scr.text, 1, Len(scr.text) - n),
   torn |-> scr.torn \/ n > Len(scr.text)]

-----------------------------------------------------------------------------
(* console_readline() is entered with an empty line and no history offset. *)
Prompt ==
  /\ at' = "key"
  /\ line' = <<>> /\ saved' = <<>> /\ hist_pos' = 0 /\ new_pos' = 0
  /\ screen' = Blank
  /\ live' = <<>>

ConsoleInit ==
  /\ Init
  /\ at = "key"
  /\ line = <<>> /\ saved = <<>> /\ hist_pos = 0 /\ new_pos = 0
  /\ screen = Blank
  /\ fs_cwd = <<>> /\ fs_path = <<"/">>
  /\ entered = <<>> /\ live = <<>>

\* The live line, as the user last saw it at hist_pos 0.
Live == live' = IF hist_pos' = 0 THEN line' ELSE live

Enter ==
  /\ at = "key"
  /\ IF line = <<>> THEN Prompt
     ELSE at' = "is_full" /\ UNCHANGED <<editor_vars, screen, live>>
  /\ UNCHANGED <<vars, fs_vars, entered>>

\* '\b' or 127 with something to delete.
Backspace ==
  /\ at = "key" /\ line # <<>>
  /\ line' = Front(line)
  /\ screen' = Erased(screen, 1)
  /\ UNCHANGED <<vars, at, saved, hist_pos, new_pos, fs_vars, entered>>
  /\ Live

\* Typing cancels history browsing.  127 is inserted where it deletes nothing.
Type(c) ==
  /\ at = "key" /\ Len(line) < LineMax - 1
  /\ c = Del => line = <<>>
  /\ line' = Append(line, c)
  /\ screen' = Shown(screen, <<c>>)
  /\ hist_pos' = 0
  /\ Live
  /\ UNCHANGED <<vars, at, saved, new_pos, fs_vars, entered>>

\* Up and down arrow: the new offset, kept within 0..ring_buf_count().
Stepped(d, n) ==
  LET p == hist_pos + d
  IN  IF p < 0 THEN 0 ELSE IF p > n THEN n ELSE p

Arrow(d) ==
  /\ at = "key"
  /\ count
  /\ new_pos' = Stepped(d, ret'.value)
  /\ at' = IF new_pos' = hist_pos THEN "key" ELSE "recall"
  /\ UNCHANGED <<line, saved, hist_pos, screen, fs_vars, entered, live>>

SavesLive == hist_pos = 0

ClearedLate(scr, old, new) == Erased(scr, Len(new))
Cleared(scr, old, new) == Erased(scr, Len(old))

\* The rest of the arrow key: save the live line before browsing starts, clear
\* the old line, and show the saved one or that of the history.
recall ==
  /\ at = "recall"
  /\ saved' = IF SavesLive THEN line ELSE saved
  /\ hist_pos' = new_pos
  /\ \/ /\ new_pos = 0
        /\ line' = saved'
        /\ UNCHANGED vars
     \/ /\ new_pos > 0
        /\ peek(new_pos - 1)       \* history_get()
        /\ line' = IF ret'.value = 1 THEN ret'.elem ELSE <<>>
  /\ screen' = Shown(Cleared(screen, line, line'), line')
  /\ at' = "key"
  /\ Live
  /\ UNCHANGED <<new_pos, fs_vars, entered>>

-----------------------------------------------------------------------------
(* history_push(): three sections of the ring buffer's lock.               *)
AfterIsFullPushes(full) == "push"
AfterIsFull(full) == IF full = 1 THEN "drop" ELSE "push"

history_is_full ==
  /\ at = "is_full"
  /\ is_full
  /\ at' = AfterIsFull(ret'.value)
  /\ UNCHANGED <<editor_vars, screen, fs_vars, entered, live>>

history_drop ==
  /\ at = "drop"
  /\ pop
  /\ at' = "push"
  /\ UNCHANGED <<editor_vars, screen, fs_vars, entered, live>>

history_push ==
  /\ at = "push"
  /\ push(line)
  /\ at' = "command"
  /\ entered' = LET all == Append(entered, line)
                IN  IF Len(all) < Capacity THEN all ELSE Tail(all)
  /\ UNCHANGED <<editor_vars, screen, fs_vars, live>>

-----------------------------------------------------------------------------
(* cmd_cd().  When the volume cannot be mounted or fat32_cd() does not     *)
(* find the target, and for "cd .", nothing changes: that is the other     *)
(* command below.  The root has no entry "..".                             *)
LastSlash(path) == SelectLastInSeq(path, LAMBDA c : c = "/")

\* The path up to its last component.
ParentPathToSlash(path) == SubSeq(path, 1, LastSlash(path))
ParentPath(path) ==
  LET i == LastSlash(path) IN SubSeq(path, 1, IF i = 1 THEN 1 ELSE i - 1)

\* A slash unless one is there, and as much of the name as fits.
Extended(path, name) ==
  LET slashed == IF Last(path) # "/" /\ Len(path) < PathMax
                 THEN Append(path, "/") ELSE path
      room == PathMax - Len(slashed)
  IN  slashed \o SubSeq(name, 1, IF Len(name) < room THEN Len(name) ELSE room)

cd_root == fs_cwd' = <<>> /\ fs_path' = <<"/">>

cd_parent ==
  /\ fs_cwd # <<>>
  /\ fs_cwd' = Front(fs_cwd)
  /\ fs_path' = ParentPath(fs_path)

cd_name(n) ==
  /\ Len(fs_cwd) < MaxDepth
  /\ fs_cwd' = Append(fs_cwd, n)
  /\ fs_path' = Extended(fs_path, n)

cmd_cd ==
  /\ at = "command"
  /\ cd_root \/ cd_parent \/ \E n \in Name : cd_name(n)
  /\ Prompt
  /\ UNCHANGED <<vars, entered>>

other_command ==
  /\ at = "command"
  /\ Prompt
  /\ UNCHANGED <<vars, fs_vars, entered>>

ConsoleNext ==
  \/ Enter
  \/ Backspace
  \/ \E c \in Char \cup {Del} : Type(c)
  \/ \E d \in {1, -1} : Arrow(d)
  \/ recall
  \/ history_is_full
  \/ history_drop
  \/ history_push
  \/ cmd_cd
  \/ other_command

ConsoleSpec == ConsoleInit /\ [][ConsoleNext]_<<vars, console_vars>>

-----------------------------------------------------------------------------
(* Properties.                                                             *)

\* The user sees the line that Enter will execute, after any editing and
\* browsing, unless 127 was inserted as a character or recalled.
EchoIsLine == at = "key" /\ ~screen.torn => screen.text = line

\* The n-th Up shows the n-th last line entered, however often the ring buffer
\* has dropped its oldest line and wrapped; Down to offset 0 brings back the
\* input as it was when browsing started, whatever was edited on the way.
HistoryRecalls ==
  [][at = "recall" =>
       line' = IF hist_pos' = 0 THEN live
               ELSE entered[Len(entered) - hist_pos' + 1]]_<<vars, console_vars>>

PathOf(dirs) ==
  IF dirs = <<>> THEN <<"/">> ELSE FlattenSeq([i \in 1..Len(dirs) |-> <<"/">> \o dirs[i]])

\* cd changes the directory and the path of the prompt alike: the prompt names
\* the directory that ls will list, as long as its name has fitted in.
PathNamesCwd ==
  [][fs_path = PathOf(fs_cwd) /\ Len(PathOf(fs_cwd')) <= PathMax
       => fs_path' = PathOf(fs_cwd')]_<<vars, console_vars>>

=============================================================================
