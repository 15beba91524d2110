------------------------------ MODULE LinkCode ------------------------------
(***************************************************************************)
(* The linker's translation of ucode into icode (icont/lcode.c): gencode() *)
(* reads one ucode line at a time and appends opcodes and operand words to *)
(* the code buffer.  A reference to a label that is not placed yet is put  *)
(* on a chain threaded through the operand words themselves, whose head is *)
(* labels[lab] as a negative address; when the label comes, backpatch()    *)
(* walks the chain and overwrites every link with a relative offset.       *)
(*                                                                         *)
(* Addresses count cells from 0: an opcode and an operand word are a cell  *)
(* each, and the padding of misalign() and align() is left out.  The block *)
(* of a procedure (lemitproc) is one cell.                                 *)
(***************************************************************************)
EXTENDS Integers, Sequences, FiniteSets

WordSize == 1        \* cells of an operand word

VARIABLES
    ucode,     \* the lines to read
    line,      \* the line gencode() reads next
    codeb,     \* the icode written so far: cells [op |-> ..] or [w |-> ..]
    labels,    \* > 0: the address of a placed label; else its chain
    entry,     \* entry[k]: address of the first instruction of procedure k
    chain      \* backpatch()'s p while it walks a chain, Idle otherwise

linkVars == <<ucode, line, codeb, labels, entry, chain>>

Idle == 1            \* no link of a chain is positive

pc == Len(codeb)

\* The labels a list of ucode names, and the procedures it declares.
LabelsOf(u) == {u[i].lab : i \in {j \in DOMAIN u : "lab" \in DOMAIN u[j]}}
ProcsOf(u)  == {u[i].num : i \in {j \in DOMAIN u : u[j].op = "proc"}}

\* The linker is given the ucode u.
LinkInit(u) ==
    /\ ucode = u
    /\ line = 1
    /\ codeb = <<>>
    /\ labels = [l \in LabelsOf(ucode) |-> 0]
    /\ entry = [k \in ProcsOf(ucode) |-> 0]
    /\ chain = Idle

Reading(ops) ==
    /\ chain = Idle
    /\ line <= Len(ucode)
    /\ ucode[line].op \in ops

\* outop and outword, and then the next line.
Out(cells) ==
    /\ codeb' = codeb \o cells
    /\ line' = line + 1

Op(name) == [op |-> name]
Word(w)  == [w |-> w]

-----------------------------------------------------------------------------
(* Operations without an operand (lemit).                                  *)
Plain == {"pnull", "push1", "pushn1", "pop", "toby", "plus", "minus", "numgt", "eqv",
          "value", "bscan", "escan", "mark0", "unmark", "esusp", "lsusp", "psusp", "eret",
          "pret", "pfail", "efail", "limit", "ccase"}

Lemit ==
    /\ Reading(Plain)
    /\ Out(<<Op(ucode[line].op)>>)
    /\ UNCHANGED <<ucode, labels, entry, chain>>

(* Operations with a number (lemitn, lemitint).                            *)
Lemitn ==
    /\ Reading({"int", "invoke"})
    /\ Out(<<Op(ucode[line].op), Word(ucode[line].num)>>)
    /\ UNCHANGED <<ucode, labels, entry, chain>>

(* A variable: the names of the model are global (F_Global) or, from       *)
(* Param on, parameters (F_Argument).                                      *)
Param == 10
LinkVar ==
    /\ Reading({"var"})
    /\ LET k == ucode[line].num
       IN  Out(IF k < Param THEN <<Op("global"), Word(k)>>
               ELSE <<Op("arg"), Word(k - Param)>>)
    /\ UNCHANGED <<ucode, labels, entry, chain>>

(* A keyword: &fail and &null have instructions of their own.              *)
LinkKeywd ==
    /\ Reading({"keywd"})
    /\ Out(CASE ucode[line].num = "fail" -> <<Op("efail")>>
             [] ucode[line].num = "null" -> <<Op("pnull")>>
             [] OTHER -> <<Op("keywd"), Word(ucode[line].num)>>)
    /\ UNCHANGED <<ucode, labels, entry, chain>>

(* An operation with a label (lemitl).  The reference to a label that is   *)
(* not placed goes to the front of the label's chain.                      *)
Lemitl ==
    /\ Reading({"mark", "goto", "chfail"})
    /\ LET lab     == ucode[line].lab
           operand == pc + 1             \* where the operand word will be
       IN  IF labels[lab] <= 0
           THEN /\ Out(<<Op(ucode[line].op), Word(labels[lab])>>)
                /\ labels' = [labels EXCEPT ![lab] = -operand]
           ELSE /\ Out(<<Op(ucode[line].op),
                         Word(labels[lab] - (operand + WordSize))>>)
                /\ UNCHANGED labels
    /\ UNCHANGED <<ucode, entry, chain>>

-----------------------------------------------------------------------------
(* A label: backpatch(lab).                                                *)

StartBackpatch ==
    /\ Reading({"lab"})
    /\ labels[ucode[line].lab] <= 0      \* "multiply defined label" is fatal
    /\ chain' = labels[ucode[line].lab]
    /\ UNCHANGED <<ucode, line, codeb, labels, entry>>

\* The word at -p holds the next link; the relative offset replaces it.
\* Mutant: the offset counts from the operand word, not from the word after.
BackpatchShort ==
    /\ chain < 0
    /\ chain' = codeb[-chain + 1].w
    /\ codeb' = [codeb EXCEPT ![-chain + 1] = Word(pc + chain)]
    /\ UNCHANGED <<ucode, line, labels, entry>>

Backpatch ==
    /\ chain < 0
    /\ chain' = codeb[-chain + 1].w
    /\ codeb' = [codeb EXCEPT ![-chain + 1] = Word(pc - (WordSize - chain))]
    /\ UNCHANGED <<ucode, line, labels, entry>>

EndBackpatch ==
    /\ chain = 0
    /\ labels' = [labels EXCEPT ![ucode[line].lab] = pc]
    /\ chain' = Idle
    /\ line' = line + 1
    /\ UNCHANGED <<ucode, codeb, entry>>

-----------------------------------------------------------------------------
(* Declarations of a procedure.                                            *)

\* Op_Proc: the labels of a procedure are its own (clearlab).
LinkProc ==
    /\ Reading({"proc"})
    /\ labels' = [l \in DOMAIN labels |-> 0]
    /\ line' = line + 1
    /\ UNCHANGED <<ucode, codeb, entry, chain>>

\* The procedure a line belongs to.
ProcAt(i) ==
    ucode[CHOOSE j \in 1..i : /\ ucode[j].op = "proc"
                              /\ \A k \in (j + 1)..i : ucode[k].op # "proc"].num

\* Op_Declend: the block of the procedure, and its code after it.
LinkDeclend ==
    /\ Reading({"declend"})
    /\ Out(<<Op("block")>>)
    /\ entry' = [entry EXCEPT ![ProcAt(line)] = pc + 1]
    /\ UNCHANGED <<ucode, labels, chain>>

LinkEnd ==
    /\ Reading({"end"})
    /\ line' = line + 1
    /\ UNCHANGED <<ucode, codeb, labels, entry, chain>>

LinkNext ==
    \/ Lemit \/ Lemitn \/ LinkVar \/ LinkKeywd \/ Lemitl
    \/ StartBackpatch \/ Backpatch \/ EndBackpatch
    \/ LinkProc \/ LinkDeclend \/ LinkEnd

Gencoded == line > Len(ucode)

-----------------------------------------------------------------------------
(* What the linker is promised by traverse().                              *)

LineForm(x) ==
    \/ DOMAIN x = {"op"} /\ x.op \in Plain \cup {"declend", "end"}
    \/ DOMAIN x = {"op", "num"} /\ x.op \in {"int", "invoke", "keywd", "proc"}
    \/ DOMAIN x = {"op", "num"} /\ x.op = "var" /\ x.num \in Nat
    \/ DOMAIN x = {"op", "lab"} /\ x.op \in {"mark", "goto", "chfail", "lab"}

\* Lines i and j belong to one procedure.
InOne(u, i, j) == \A k \in DOMAIN u : u[k].op = "proc" => (k <= i <=> k <= j)

\* Every line belongs to a procedure, no two procedures have one number, labels
\* come after the declarations, a label is placed once in its procedure, and a
\* label that is referred to is placed in the procedure that refers to it.
WellFormed(u) ==
    /\ u \in Seq({u[i] : i \in DOMAIN u})
    /\ \A i \in DOMAIN u : LineForm(u[i])
    /\ u # <<>> => u[1].op = "proc"
    /\ \A i, j \in DOMAIN u :
         u[i].op = "proc" /\ u[j].op = "proc" /\ u[i].num = u[j].num => i = j
    /\ \A i \in DOMAIN u :
         u[i].op = "lab" => \E k \in 1..(i - 1) : u[k].op = "declend"
    /\ \A i, j \in DOMAIN u :
         u[i].op = "lab" /\ u[j].op = "lab" /\ u[i].lab = u[j].lab /\ InOne(u, i, j) => i = j
    /\ \A i \in DOMAIN u :
         u[i].op \in {"mark", "goto", "chfail"} =>
           \E j \in DOMAIN u : u[j].op = "lab" /\ u[j].lab = u[i].lab /\ InOne(u, i, j)

-----------------------------------------------------------------------------
(* What the linker promises.                                               *)

\* The cells line i takes, and the address it starts at.
SizeOf(u) ==
    IF u.op \in {"proc", "lab", "end"} THEN 0
    ELSE IF \/ DOMAIN u = {"op"}
            \/ u.op = "keywd" /\ u.num \in {"fail", "null"}
         THEN 1
    ELSE 2
AddressOf(i) ==
    LET upTo[j \in 0..Len(ucode)] ==
          IF j = 0 THEN 0 ELSE upTo[j - 1] + SizeOf(ucode[j])
    IN  upTo[i - 1]

References == {i \in DOMAIN ucode : ucode[i].op \in {"mark", "goto", "chfail"}}

\* The line that places the label that line i names, in i's procedure.
PlaceOf(i) ==
    CHOOSE j \in DOMAIN ucode :
        /\ ucode[j].op = "lab"
        /\ ucode[j].lab = ucode[i].lab
        /\ ProcAt(j) = ProcAt(i)

Linked ==
    \A i \in References :
        LET operand == AddressOf(i) + 1
        IN  codeb[operand + 1] =
              Word(AddressOf(PlaceOf(i)) - (operand + WordSize))

\* Once the last line is read, each operand is the distance from the word
\* after it to the place of the label that its own ucode line names: no
\* chain of references runs into another one, none is left half patched,
\* and a label of one procedure is never taken for one of another
\* (lemitl(), backpatch() and clearlab()).
LinkedRight == [][~Gencoded /\ Gencoded' => Linked']_linkVars
=============================================================================
