------------------------------- MODULE Files -------------------------------
(***************************************************************************)
(* The files of one user and the tools that list, search, read, write,     *)
(* edit and run them.                                                      *)
(*                                                                         *)
(* Nothing here but the running of a command gives way, so one call after  *)
(* another is carried out.  A command is a process of its own: it may      *)
(* write files as long as it runs, also between the read and the write of  *)
(* an edit, and the kill on a timeout reaches the shell, not always what   *)
(* the shell started.  A write may fail, before the file is opened or when *)
(* a part of it is written.                                                *)
(*                                                                         *)
(* A content is the sequence of its lines, [text, ended]: the words of the *)
(* line, and whether a newline ends it, as for all lines but the last.     *)
(***************************************************************************)
EXTENDS Integers, Sequences, FiniteSets, SequencesExt

CONSTANTS
    File,
    Word,         \* the words of names and lines
    NameWords,    \* per file: the words of its name
    Texts,        \* contents that tools and commands write
    EditTexts,    \* what an edit puts in
    MaxLine,      \* bound: the line numbers in edits
    MaxBatch,     \* bound: the edits of one call
    MaxCalls,     \* bound: tool calls
    MaxEdits,     \* bound: edit_file calls among them
    NoFile        \* the content of a file that does not exist

VARIABLES
    disk,         \* per file: its content
    command,      \* "none", "awaited", or "orphan": left running after a timeout
    result,       \* of the last tool call
    editing,      \* the edit_file call between its read and its write, if any
    lastEdit,     \* the edit_file call just made: what it read, its edits, what it left
    fileCalls,    \* tool calls so far
    fileEdits     \* edit_file calls so far

fileVars == <<disk, command, result, editing, lastEdit, fileCalls, fileEdits>>

NoEdit == [before |-> <<>>, edits |-> <<>>, outcome |-> "none", after |-> <<>>]

FileLine == [text : Seq(Word), ended : BOOLEAN]

ASSUME FileAssumption ==
    /\ MaxLine \in Nat /\ MaxBatch \in Nat /\ MaxCalls \in Nat /\ MaxEdits \in Nat
    /\ Texts \cup EditTexts \subseteq Seq(FileLine)
    /\ NoFile \notin Texts

FileInit ==
    /\ disk \in [File -> Texts \cup {NoFile}]
    /\ command = "none"
    /\ result = [ok |-> TRUE, files |-> {}]
    /\ editing = {}
    /\ lastEdit = NoEdit
    /\ fileCalls = 0
    /\ fileEdits = 0

Exists(f) == disk[f] # NoFile

WordsIn(content) == UNION {ToSet(content[i].text) : i \in DOMAIN content}

\* Every step but an edit forgets the last edit.
Leave(others) == lastEdit' = NoEdit /\ UNCHANGED <<others, editing, fileEdits>>

\* A tool is called.
Starts == fileCalls < MaxCalls /\ fileCalls' = fileCalls + 1

\* This is what it answers.
Call(answer) == Starts /\ result' = answer

-----------------------------------------------------------------------------
(* Listing, searching, reading, writing *)

Listed == {f \in File : Exists(f)}

ListsFiles ==
    /\ Call([ok |-> TRUE, files |-> Listed])
    /\ Leave(<<disk, command>>)

Matches(word, inContent) ==
    {f \in File : /\ Exists(f)
                  /\ word \in NameWords[f] \/ (inContent /\ word \in WordsIn(disk[f]))}

\* The walk stops at max_results, in whatever order it meets the files.
SearchesFiles ==
    /\ \E f \in File, inContent \in BOOLEAN, most \in 1..2 :
        \E word \in NameWords[f] :
            LET all == Matches(word, inContent)
            IN  \E found \in SUBSET all :
                    /\ Cardinality(found) = IF Cardinality(all) < most THEN Cardinality(all) ELSE most
                    /\ Call([ok |-> TRUE, files |-> found])
    /\ Leave(<<disk, command>>)

ReadsFile(f) ==
    /\ Call([ok |-> Exists(f), files |-> {f}])
    /\ Leave(<<disk, command>>)

Written(f, text) == [disk EXCEPT ![f] = text]

\* write_file raises for a file that exists and is not to be overwritten.
Writable(f, overwrite) == overwrite \/ ~Exists(f)

WritesFile(f) ==
    /\ \E text \in Texts, overwrite \in BOOLEAN :
        /\ Writable(f, overwrite)
        /\ disk' = Written(f, text)
    /\ Call([ok |-> TRUE, files |-> {f}])
    /\ Leave(command)

\* What a failing write leaves: the file as it was, or truncated and begun.
Spoilt(f, text) == {disk} \cup {Written(f, SubSeq(text, 1, n)) : n \in 0..Len(text)}

WriteFails(f) ==
    /\ \E text \in Texts, overwrite \in BOOLEAN :
        disk' \in IF Writable(f, overwrite) THEN Spoilt(f, text) ELSE {disk}
    /\ Call([ok |-> FALSE, files |-> {f}])
    /\ Leave(command)

-----------------------------------------------------------------------------
(* Editing *)

\* end defaults to start; start - 1 inserts before start.
LineEdit == {e \in [start : 1..MaxLine, end : 0..MaxLine, text : EditTexts] : e.end >= e.start - 1}

Inserts(e) == e.end = e.start - 1

OutOfRange(e, count) ==
    IF Inserts(e) THEN e.start > count + 1 ELSE e.start > count \/ e.end > count

\* Mutant: from the top.
FromTheTop(edits, left) ==
    CHOOSE i \in left : \A j \in left \ {i} :
        edits[i].start < edits[j].start \/ (edits[i].start = edits[j].start /\ i < j)

\* Of the edits left, the next: by start line from the bottom, those of the
\* same line in the given order.
FromTheBottom(edits, left) ==
    CHOOSE i \in left : \A j \in left \ {i} :
        edits[i].start > edits[j].start \/ (edits[i].start = edits[j].start /\ i < j)

ApplyEdit(lines, e) ==
    SubSeq(lines, 1, e.start - 1) \o e.text \o SubSeq(lines, e.end + 1, Len(lines))

Glued(content, line) ==
    IF content # <<>> /\ ~content[Len(content)].ended
    THEN [content EXCEPT ![Len(content)] =
            [text |-> @.text \o line.text, ended |-> line.ended]]
    ELSE Append(content, line)

\* "".join(lines): a line that no newline ends runs into the next one.
Joined(lines) ==
    LET upTo[n \in 0..Len(lines)] == IF n = 0 THEN <<>> ELSE Glued(upTo[n - 1], lines[n])
    IN  upTo[Len(lines)]

OneMore(edits, done) ==
    LET i     == FromTheBottom(edits, done.left)
        fits  == done.ok /\ ~OutOfRange(edits[i], Len(done.lines))
    IN  [ok    |-> fits,
         lines |-> IF fits THEN ApplyEdit(done.lines, edits[i]) ELSE done.lines,
         left  |-> done.left \ {i}]

\* The edits one after another, up to the first that is out of range.
Edited(content, edits) ==
    LET done[n \in 0..Len(edits)] ==
            IF n = 0 THEN [ok |-> TRUE, lines |-> content, left |-> DOMAIN edits]
            ELSE OneMore(edits, done[n - 1])
    IN  done[Len(edits)]

EditOf(e, outcome, after) ==
    [before |-> e.before, edits |-> e.edits, outcome |-> outcome, after |-> after]

\* The file is read and the edits are applied; nothing is written when one of
\* them is out of range, or when they change nothing.
EditReads(f) ==
    /\ Exists(f)
    /\ fileEdits < MaxEdits
    /\ fileEdits' = fileEdits + 1
    /\ \E edits \in UNION {[1..n -> LineEdit] : n \in 1..MaxBatch} :
        LET new  == Edited(disk[f], edits)
            e    == [file |-> f, before |-> disk[f], edits |-> edits, content |-> Joined(new.lines)]
        IN  IF new.ok /\ e.content # e.before
            THEN /\ editing' = {e} /\ lastEdit' = NoEdit
                 /\ Starts /\ UNCHANGED result
            ELSE /\ lastEdit' = EditOf(e, IF new.ok THEN "unchanged" ELSE "rejected", e.before)
                 /\ Call([ok |-> new.ok, files |-> {f}]) /\ UNCHANGED editing
    /\ UNCHANGED <<disk, command>>

\* The new content replaces whatever is there now.
EditWrites ==
    /\ \E e \in editing :
        /\ disk' = Written(e.file, e.content)
        /\ lastEdit' = EditOf(e, "updated", e.content)
        /\ result' = [ok |-> TRUE, files |-> {e.file}]
    /\ editing' = {}
    /\ UNCHANGED <<command, fileCalls, fileEdits>>

EditWriteFails ==
    /\ \E e \in editing :
        /\ disk' \in Spoilt(e.file, e.content)
        /\ lastEdit' = EditOf(e, "failed", disk'[e.file])
        /\ result' = [ok |-> FALSE, files |-> {e.file}]
    /\ editing' = {}
    /\ UNCHANGED <<command, fileCalls, fileEdits>>

EditFails(f) ==
    /\ ~Exists(f)
    /\ Call([ok |-> FALSE, files |-> {f}])
    /\ Leave(<<disk, command>>)

-----------------------------------------------------------------------------
(* Commands *)

\* run_python_file of a file that exists, or pip_install.
RunsCommand ==
    /\ command # "awaited"
    /\ Starts
    /\ command' = "awaited"
    /\ Leave(<<disk, result>>)

RunFails(f) ==
    /\ ~Exists(f)
    /\ Call([ok |-> FALSE, files |-> {f}])
    /\ Leave(<<disk, command>>)

CommandWrites(f) ==
    /\ command # "none"
    /\ \E text \in Texts \cup {NoFile} : disk' = [disk EXCEPT ![f] = text]
    /\ Leave(<<command, result, fileCalls>>)

CommandExits ==
    /\ command # "none"
    /\ command' = "none"
    /\ \E code \in 0..1 :
        result' = IF command = "awaited" THEN [ok |-> code = 0, files |-> {}] ELSE result
    /\ Leave(<<disk, fileCalls>>)

TimesOut ==
    /\ command = "awaited"
    /\ command' \in {"none", "orphan"}
    /\ result' = [ok |-> FALSE, files |-> {}]
    /\ Leave(<<disk, fileCalls>>)

\* Between the read and the write of an edit the event loop does nothing else.
FileNext ==
    \/ /\ editing = {}
       /\ \/ ListsFiles \/ SearchesFiles
          \/ RunsCommand \/ CommandExits \/ TimesOut
          \/ \E f \in File : \/ ReadsFile(f) \/ WritesFile(f) \/ WriteFails(f)
                             \/ EditReads(f) \/ EditFails(f) \/ RunFails(f)
    \/ EditWrites \/ EditWriteFails
    \/ \E f \in File : CommandWrites(f)

FileSpec == FileInit /\ [][FileNext]_fileVars

-----------------------------------------------------------------------------
(* Edits do not touch the same lines. *)
Apart(edits) ==
    \A i, j \in DOMAIN edits : i # j =>
        /\ edits[i].start # edits[j].start
        /\ edits[j].start \notin edits[i].start..edits[i].end

(* What edits mean for a line of the file as it was read, or for the place *)
(* after the last: the text of the edit that starts there, and the line    *)
(* itself unless an edit replaces it.                                      *)
Pieces(content, edits, n) ==
    LET at == {i \in DOMAIN edits : edits[i].start = n}
    IN  (IF at # {} THEN edits[CHOOSE i \in at : TRUE].text ELSE <<>>)
        \o (IF n > Len(content) \/ \E i \in DOMAIN edits : n \in edits[i].start..edits[i].end
            THEN <<>> ELSE <<content[n]>>)

Meant(content, edits) ==
    LET from[n \in 1..(Len(content) + 2)] ==
            IF n = Len(content) + 2 THEN <<>> ELSE Pieces(content, edits, n) \o from[n + 1]
    IN  Joined(from[1])

AsNumbered(edit) ==
    LET beyond == \E i \in DOMAIN edit.edits : OutOfRange(edit.edits[i], Len(edit.before))
    IN  /\ edit.outcome = "rejected" => edit.after = edit.before
        /\ edit.outcome # "failed" /\ Apart(edit.edits) =>
            /\ edit.outcome = "rejected" <=> beyond
            /\ ~beyond => edit.after = Meant(edit.before, edit.edits)

(* The edits of a call that do not overlap take effect at the lines the    *)
(* caller numbered, all of them or, if one of them is out of the file,     *)
(* none; but for a write that fails.                                       *)
EditsAsNumbered == AsNumbered(lastEdit)
=============================================================================
