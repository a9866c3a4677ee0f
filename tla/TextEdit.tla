------------------------------- MODULE TextEdit -------------------------------
(***************************************************************************)
(* Configuration texts: backup/tool/text.c and configPars.c.  A text is a  *)
(* list of lines, read from a file and written back to it; threads replace *)
(* and insert lines under the read and write permissions that the list     *)
(* keeps for each line.  A line is the sequence of its words, a line break *)
(* '\r' counted as one.  The list, as its list.h describes it, and the     *)
(* file are external; the program may end at any point and start again.    *)
(***************************************************************************)
EXTENDS Integers, SequencesExt

CONSTANTS
  Editors,
  Words,       \* keywords, names and values
  Equals, CR,  \* '=' and '\r'
  Torn,        \* in the place of memory that is being written, or was freed
  FirstFiles,  \* contents of the file to begin with
  MaxLines,    \* bound: lines of the list, over the life of a program
  MaxEdits     \* bound: calls

ASSUME TextAssumption ==
  /\ IsFiniteSet(Editors)
  /\ Equals # CR /\ Words \cap {Equals, CR} = {} /\ Torn \notin Words \cup {Equals, CR}
  /\ \A f \in FirstFiles : f \in Seq(Seq(Words \cup {Equals, CR})) /\ Len(f) <= MaxLines
  /\ MaxLines \in Nat /\ MaxEdits \in Nat

VARIABLES
  savedFile,  \* the lines of the file
  text,       \* the lines of the list, from its head on, each by its node
  lineStr,    \* what each node's line_ptr points at
  permission, \* of each node, the counts of both permissions
  editor,     \* the call each thread is in
  editCount,  \* history: calls so far
  kept,       \* history: of each node, permissions that calls ended without releasing
  toSave      \* history: lines that the last save was to write; 0 if it was refused one

textVars == <<savedFile, text, lineStr, permission, editor, editCount, kept, toSave>>

Nodes == 1 .. MaxLines
READ == "READ_PERMISSION_TAG"
WRITE == "WRITE_PERMISSION_TAG"
NoneHeld == [tag \in {READ, WRITE} |-> 0]
NotEditing == [at |-> "out", op |-> "none", node |-> 0, tag |-> "none", new |-> << >>, posi |-> 0]

(* getline answers an empty line with AII_ERROR, and reading ends.          *)
LinesRead(f) == Cardinality({i \in DOMAIN f : \A j \in 1 .. i : f[j] # << >>})

(* Each line becomes the head, so that the last one comes first.            *)
read_text(f) ==
  [text |-> [i \in 1 .. LinesRead(f) |-> LinesRead(f) + 1 - i],
   lineStr |-> [k \in Nodes |-> IF k <= LinesRead(f) THEN f[k] ELSE << >>]]

NoPermissions == [k \in Nodes |-> NoneHeld]

TextInit ==
  /\ savedFile \in FirstFiles
  /\ text = read_text(savedFile).text /\ lineStr = read_text(savedFile).lineStr
  /\ permission = NoPermissions /\ kept = NoPermissions
  /\ editor = [e \in Editors |-> NotEditing]
  /\ editCount = 0
  /\ toSave = Len(savedFile)

-----------------------------------------------------------------------------
Where(e) == editor[e].at
Node(e) == editor[e].node
ToStep(e, step) == editor' = [editor EXCEPT ![e].at = step]
CallEnds(e) == editor' = [editor EXCEPT ![e] = NotEditing]

GetPermission(k, tag) == permission' = [permission EXCEPT ![k][tag] = @ + 1]
ReleasePermission(k, tag) == permission' = [permission EXCEPT ![k][tag] = @ - 1]
KeepPermission(k, tag) == kept' = [kept EXCEPT ![k][tag] = @ + 1]

Grants(k, tag) ==
  /\ permission[k][WRITE] = 0
  /\ tag = WRITE => permission[k][READ] = 0

(* Every call starts by finding a line; a call that finds none, or is       *)
(* refused the permission, ends with AII_ERROR.                             *)
Find(e, op, k, tag, new, posi) ==
  /\ Where(e) = "out" /\ editCount < MaxEdits
  /\ editCount' = editCount + 1
  /\ IF Grants(k, tag)
       THEN /\ GetPermission(k, tag)
            /\ editor' = [editor EXCEPT ![e] =
                 [at |-> "found", op |-> op, node |-> k, tag |-> tag, new |-> new, posi |-> posi]]
       ELSE UNCHANGED <<permission, editor>>
  /\ UNCHANGED <<savedFile, text, lineStr, kept, toSave>>

(* findstr finds a word at the end of a line only.                          *)
line_kw_cmp_fun(k, keyword) == lineStr[k] # << >> /\ Last(lineStr[k]) \in {keyword, Torn}

find_keyword(e, op, keyword, tag, new, posi) ==
  \E i \in DOMAIN text :
    /\ line_kw_cmp_fun(text[i], keyword)
    /\ \A j \in 1 .. i - 1 : lineStr[text[j]] = << >> \/ Last(lineStr[text[j]]) # keyword
    /\ Find(e, op, text[i], tag, new, posi)

find_line_num(e, op, line_num, tag, new) ==
  /\ line_num \in DOMAIN text
  /\ Find(e, op, text[line_num], tag, new, 0)

(* What the replacing calls ask for.                                        *)
OnlyReads == READ
ReplaceTag == WRITE

(* A node that was found has data, which the comparator has read: the paths *)
(* of the two routines below for a failing GetData are never taken.         *)
replace_line_num(e, line_num, word) ==
  find_line_num(e, "replace_line", line_num, ReplaceTag, <<word, CR>>)

replace_line_kw(e, keyword, new) ==
  find_keyword(e, "replace_line", keyword, ReplaceTag, new \o <<CR>>, 0)

replace_kw(e, keyword, word) ==
  find_keyword(e, "replace_kw", keyword, ReplaceTag, <<word>>, 0)

modify_config(e, name, value) == replace_line_kw(e, name, <<name, Equals, value>>)

insert_line(e, keyword, word, posi) ==
  find_keyword(e, "insert", keyword, READ, <<word, CR>>, posi)

get_config_value(e, name) == find_keyword(e, "config", name, READ, << >>, 0)

-----------------------------------------------------------------------------
(* realloc and memcpy into the line that others may look at.                *)
WriteBegins(e) ==
  /\ Where(e) = "found" /\ editor[e].op \in {"replace_line", "replace_kw"}
  /\ editor' = [editor EXCEPT
       ![e].at = "write",
       ![e].new = IF editor[e].op = "replace_kw" THEN Front(lineStr[Node(e)]) \o @ ELSE @]
  /\ lineStr' = [lineStr EXCEPT ![Node(e)] = <<Torn>>]
  /\ UNCHANGED <<savedFile, text, permission, editCount, kept, toSave>>

LineReplaced(e) ==
  /\ Where(e) = "write" /\ editor[e].op = "replace_line"
  /\ lineStr' = [lineStr EXCEPT ![Node(e)] = editor[e].new]
  /\ ReleasePermission(Node(e), editor[e].tag)
  /\ CallEnds(e)
  /\ UNCHANGED <<savedFile, text, editCount, kept, toSave>>

(* replace_kw drops the answer of realloc, which may have moved the line,   *)
(* and does not release the permission; nor does it when realloc fails.     *)
KeywordReplaced(e) ==
  /\ Where(e) = "write" /\ editor[e].op = "replace_kw"
  /\ \E l \in {editor[e].new, <<Torn>>} : lineStr' = [lineStr EXCEPT ![Node(e)] = l]
  /\ KeepPermission(Node(e), editor[e].tag)
  /\ CallEnds(e)
  /\ UNCHANGED <<savedFile, text, permission, editCount, toSave>>

(* InsertNodeHandle.                                                        *)
LineInserted(e) ==
  /\ Where(e) = "found" /\ editor[e].op = "insert"
  /\ Len(text) < MaxLines
  /\ \E i \in DOMAIN text :
       /\ text[i] = Node(e)
       /\ text' = InsertAt(text, i + editor[e].posi, Len(text) + 1)
  /\ lineStr' = [lineStr EXCEPT ![Len(text) + 1] = editor[e].new]
  /\ ToStep(e, "inserted")
  /\ UNCHANGED <<savedFile, permission, editCount, kept, toSave>>

(* With the line inserted or, on the way through ErrExit, not.              *)
InsertEnds(e) ==
  /\ editor[e].op = "insert" /\ Where(e) \in {"found", "inserted"}
  /\ ReleasePermission(Node(e), READ)
  /\ CallEnds(e)
  /\ UNCHANGED <<savedFile, text, lineStr, editCount, kept, toSave>>

(* pars_config_line finds no delimiter in a line that does not end with '=', *)
(* and in one that does takes the memory it is given for none: AII_ERROR,   *)
(* and the read permission stays.                                           *)
ConfigNotRead(e) ==
  /\ Where(e) = "found" /\ editor[e].op = "config"
  /\ KeepPermission(Node(e), READ)
  /\ CallEnds(e)
  /\ UNCHANGED <<savedFile, text, lineStr, permission, editCount, toSave>>

-----------------------------------------------------------------------------
(* One thread at a time saves the text: fopen with "w".                     *)
text_save(e) ==
  /\ Where(e) = "out" /\ editCount < MaxEdits
  /\ \A d \in Editors : Where(d) # "save"
  /\ editCount' = editCount + 1
  /\ savedFile' = << >>
  /\ toSave' = Len(text)
  /\ editor' = [editor EXCEPT ![e] = [NotEditing EXCEPT !.at = "save", !.tag = READ]]
  /\ UNCHANGED <<text, lineStr, permission, kept>>

(* GetNextNode from the line before, or from the head of the list.          *)
NextNode(k) ==
  IF k = 0 THEN text[1]
  ELSE LET i == CHOOSE j \in DOMAIN text : text[j] = k IN text[(i % Len(text)) + 1]

(* From one line to the next: the permission of the next one is taken, that *)
(* of the one before released, and the line is written.                     *)
SaveLine(e) ==
  /\ Where(e) = "save" /\ Len(savedFile) < toSave
  /\ LET k == NextNode(Node(e)) IN
       /\ Grants(k, READ)
       /\ permission' = [n \in Nodes |->
            [permission[n] EXCEPT ![READ] = @ + (IF n = k THEN 1 ELSE 0)
                                              - (IF n = Node(e) THEN 1 ELSE 0)]]
       /\ savedFile' = Append(savedFile, lineStr[k])
       /\ editor' = [editor EXCEPT ![e].node = k]
  /\ UNCHANGED <<text, lineStr, editCount, kept, toSave>>

SaveReleases(e) ==
  IF Node(e) = 0 THEN UNCHANGED permission ELSE ReleasePermission(Node(e), READ)

(* A line that is refused ends the save, with AII_OK like the last one.     *)
SaveEnds(e) ==
  /\ Where(e) = "save"
  /\ \/ Len(savedFile) >= toSave /\ UNCHANGED toSave
     \/ /\ Len(savedFile) < toSave
        /\ ~Grants(NextNode(Node(e)), READ)
        /\ toSave' = 0
  /\ SaveReleases(e)
  /\ CallEnds(e)
  /\ UNCHANGED <<savedFile, text, lineStr, editCount, kept>>

(* The program ends and starts again.  Of a save that was under way, the    *)
(* file has the bytes that stdio had passed on.                             *)
Remains ==
  IF \A e \in Editors : Where(e) # "save" THEN {savedFile}
  ELSE {SubSeq(savedFile, 1, n) : n \in 0 .. Len(savedFile)}
         \cup {SubSeq(savedFile, 1, n) \o << Front(savedFile[n + 1]) >> : n \in {i - 1 : i \in DOMAIN savedFile}}

Restarts ==
  /\ editCount < MaxEdits
  /\ editCount' = editCount + 1
  /\ savedFile' \in Remains
  /\ text' = read_text(savedFile').text /\ lineStr' = read_text(savedFile').lineStr
  /\ permission' = NoPermissions /\ kept' = NoPermissions
  /\ editor' = [e \in Editors |-> NotEditing]
  /\ toSave' = Len(savedFile')

TextNext ==
  \/ \E e \in Editors :
       \/ \E w \in Words :
            \/ \E n \in 1 .. MaxLines : replace_line_num(e, n, w)
            \/ \E keyword \in Words : replace_kw(e, keyword, w) \/ modify_config(e, keyword, w)
            \/ \E posi \in {0, 1} : insert_line(e, w, w, posi)
            \/ get_config_value(e, w)
       \/ WriteBegins(e) \/ LineReplaced(e) \/ KeywordReplaced(e)
       \/ LineInserted(e) \/ InsertEnds(e) \/ ConfigNotRead(e)
       \/ text_save(e) \/ SaveLine(e) \/ SaveEnds(e)
  \/ Restarts

TextSpec == TextInit /\ [][TextNext]_textVars

-----------------------------------------------------------------------------
(* No line comes into the file while it is being written to, nor from       *)
(* memory that was freed; and a save that no line was refused to has as     *)
(* many lines as the text had, whatever the other threads do meanwhile.     *)
SavesAreWhole ==
  /\ \A i \in DOMAIN savedFile : \A j \in DOMAIN savedFile[i] : savedFile[i][j] # Torn
  /\ (\A e \in Editors : Where(e) # "save") => toSave \in {0, Len(savedFile)}

(* The permissions of a line are those of the calls that are at it, and     *)
(* those that replace_kw and get_config_value have kept for ever.           *)
LinesAreReleased ==
  \A k \in Nodes, tag \in {READ, WRITE} :
    permission[k][tag] =
      kept[k][tag] + Cardinality({e \in Editors : Node(e) = k /\ editor[e].tag = tag})

(* What is saved is the text, and what the calls took of its lines is given *)
(* back.                                                                    *)
TextIsKept == SavesAreWhole /\ LinesAreReleased
=============================================================================
