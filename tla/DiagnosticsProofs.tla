--------------------------- MODULE DiagnosticsProofs ---------------------------
(***************************************************************************)
(* Theorems about what is left for whoever looks into a failure: the crash *)
(* report and the log (module CrashLog, for any number of threads, slots   *)
(* and backups), and the text that Copy Diagnostic Info puts on the        *)
(* clipboard (module Clipboard, for any number of clicks and tools).       *)
(*                                                                         *)
(* A line that was whole at the crash is followed through the handler      *)
(* (KeptInv): it is in one slot at most (RingInv), nobody writes it again, *)
(* and it is reported or still to be read.  A rotation moves a file only   *)
(* into a name that is free (FilesInv).                                    *)
(***************************************************************************)
EXTENDS CrashLog, Clipboard, SequenceTheorems, TLAPS

-----------------------------------------------------------------------------
(* The invariant of the log, the ring and the report *)

\* What a slot holds
SlotTypes == [line : 0 .. MaxLines, busy : SUBSET Threads, torn : BOOLEAN]

Pcs == {"idle", "reserved", "copying", "copied", "rotate", "append", "report"}

LogTypes ==
    /\ pc \in [Threads -> Pcs] /\ mine \in [Threads -> 0 .. MaxLines]
    /\ at \in [Threads -> 0 .. Slots - 1]
    /\ total \in Nat /\ slots \in [0 .. Slots - 1 -> SlotTypes]
    /\ mutex \in Threads \cup {None}
    /\ files \in [0 .. Backups -> Seq(Nat)] /\ written \in Seq(Nat)
    /\ handle \in 0 .. Gone /\ rotation \in 0 .. Backups
    /\ handling \in BOOLEAN /\ scan \in Seq(0 .. Slots - 1) /\ seen \in SlotTypes
    /\ report \in Seq(Entries) /\ place \in Nat
    /\ session \in 1 .. MaxSessions /\ alive \in BOOLEAN
    /\ lines \in 0 .. MaxLines /\ complete \in 0 .. session /\ moved \in BOOLEAN

\* A process that has ended does nothing; the handler runs in one thread.
ProcessInv ==
    /\ ~alive => pc = Idle /\ ~handling
    /\ \A t \in Threads : pc[t] = "report" => handling

\* The mutex keeps the files for one thread, and a rotation has made room for the
\* file it moves next.
FilesInv ==
    /\ \A t \in Threads : pc[t] \in {"rotate", "append"} => mutex = t
    /\ ~moved => /\ handle = 0
                 /\ \A t \in Threads : pc[t] = "rotate" /\ rotation < Backups
                                           => files[rotation + 1] = <<>>
    /\ LogHasNoGap

\* A line is in one slot at most, and no thread is about to put it into another.
RingInv ==
    /\ \A t \in Threads : pc[t] = "reserved" =>
           /\ mine[t] \in 1 .. lines
           /\ \A i \in 0 .. Slots - 1 : slots[i].line # mine[t]
           /\ \A u \in Threads \ {t} : pc[u] = "reserved" => mine[u] # mine[t]
    /\ \A t \in Threads : pc[t] \in {"reserved", "copying"} => at[t] < total
    /\ \A i \in 0 .. Slots - 1 :
           /\ slots[i].line <= lines
           /\ slots[i].line # 0 => /\ i < total
                                   /\ \A j \in 0 .. Slots - 1 : j # i => slots[j].line # slots[i].line

\* The part of the report that is written is of this session, and so is all of a
\* complete one.
ReportInv ==
    /\ handling => /\ complete = 0 /\ place \in 1 .. Len(report)
                   /\ \A i \in 1 .. place : report[i].session = session
    /\ complete # 0 => report # <<>> /\ \A i \in 1 .. Len(report) : report[i].session = complete
    /\ alive => complete # session

Reported(n) == \E i \in 1 .. place : report[i].line = n /\ report[i].whole
ToRead(i) == \E k \in 1 .. Len(scan) : scan[k] = i

\* A line that was whole at the crash is nobody's to write any more.  Where it still
\* is, it is whole, and the handler has reported it or will come to it.
KeptInv ==
    handling =>
        /\ \A n \in kept :
               /\ n \in 1 .. lines
               /\ \A t \in Threads : pc[t] = "reserved" => mine[t] # n
               /\ \A i \in 0 .. Slots - 1 :
                      slots[i].line = n => Quiet(slots[i]) /\ (Reported(n) \/ ToRead(i))
        /\ scan # <<>> /\ seen # Empty /\ slots[Head(scan)].line \in kept
               => seen = slots[Head(scan)]

CompleteInv ==
    complete = session =>
        \A n \in kept : \/ \E i \in 1 .. Len(report) : report[i].line = n /\ report[i].whole
                        \/ \A i \in 0 .. Slots - 1 : slots[i].line # n

IInv == LogTypes /\ ProcessInv /\ FilesInv /\ RingInv /\ ReportInv /\ KeptInv /\ CompleteInv

-----------------------------------------------------------------------------
(* Sequences *)

LEMMA SeqOfFcn ==
    ASSUME NEW S, NEW n \in Nat, NEW f \in [1 .. n -> S]
    PROVE  f \in Seq(S) /\ Len(f) = n
OBVIOUS

LEMMA SeqReplace ==
    ASSUME NEW S, NEW q \in Seq(S), NEW n \in 1 .. Len(q), NEW e \in S
    PROVE  LET r == [q EXCEPT ![n] = e] IN
               /\ r \in Seq(S) /\ Len(r) = Len(q) /\ r[n] = e
               /\ \A i \in 1 .. Len(q) : i # n => r[i] = q[i]
OBVIOUS

LEMMA SeqAppend ==
    ASSUME NEW S, NEW q \in Seq(S), NEW e \in S
    PROVE  LET r == Append(q, e) IN
               /\ r \in Seq(S) /\ Len(r) = Len(q) + 1 /\ r[Len(q) + 1] = e
               /\ \A i \in 1 .. Len(q) : r[i] = q[i]
OBVIOUS

-----------------------------------------------------------------------------
(* Cuts of what was written *)

LEMMA CutOfAppend ==
    ASSUME NEW w \in Seq(Nat), NEW x \in Nat, NEW a \in 0 .. Len(w), NEW b \in 0 .. Len(w)
    PROVE  /\ SubSeq(Append(w, x), a + 1, b) = SubSeq(w, a + 1, b)
           /\ SubSeq(Append(w, x), a + 1, Len(w) + 1) = Append(SubSeq(w, a + 1, Len(w)), x)
<1> DEFINE v == Append(w, x)
<1>1. /\ v \in Seq(Nat) /\ Len(v) = Len(w) + 1 /\ Len(w) \in Nat
      /\ \A i \in 1 .. Len(w) : v[i] = w[i] /\ w[i] \in Nat
      /\ v[Len(w) + 1] = x
  OBVIOUS
<1> HIDE DEF v
<1>2. \A c \in 0 .. Len(w) :
          LET s == SubSeq(w, a + 1, c) IN
              /\ s \in Seq(Nat) /\ Len(s) = IF a + 1 <= c THEN c - a ELSE 0
              /\ \A i \in 1 .. c - a : s[i] = w[a + i]
  <2> SUFFICES ASSUME NEW c \in 0 .. Len(w)
               PROVE  LET s == SubSeq(w, a + 1, c) IN
                          /\ s \in Seq(Nat) /\ Len(s) = IF a + 1 <= c THEN c - a ELSE 0
                          /\ \A i \in 1 .. c - a : s[i] = w[a + i]
    OBVIOUS
  <2>1. a + 1 \in Int /\ c \in Int /\ \A i \in a + 1 .. c : w[i] \in Nat  BY <1>1
  <2> QED  BY <1>1, <2>1, SubSeqProperties
<1>3. \A c \in 0 .. Len(v) :
          LET s == SubSeq(v, a + 1, c) IN
              /\ s \in Seq(Nat) /\ Len(s) = IF a + 1 <= c THEN c - a ELSE 0
              /\ \A i \in 1 .. c - a : s[i] = v[a + i]
  <2> SUFFICES ASSUME NEW c \in 0 .. Len(v)
               PROVE  LET s == SubSeq(v, a + 1, c) IN
                          /\ s \in Seq(Nat) /\ Len(s) = IF a + 1 <= c THEN c - a ELSE 0
                          /\ \A i \in 1 .. c - a : s[i] = v[a + i]
    OBVIOUS
  <2>1. a + 1 \in Int /\ c \in Int /\ \A i \in a + 1 .. c : v[i] \in Nat  BY <1>1
  <2> QED  BY <1>1, <2>1, SubSeqProperties
<1>4. SubSeq(v, a + 1, b) = SubSeq(w, a + 1, b)
  <2> DEFINE s == SubSeq(v, a + 1, b)
             r == SubSeq(w, a + 1, b)
  <2>1. /\ s \in Seq(Nat) /\ Len(s) = IF a + 1 <= b THEN b - a ELSE 0
        /\ \A i \in 1 .. b - a : s[i] = v[a + i]
    BY <1>1, <1>3
  <2>2. /\ r \in Seq(Nat) /\ Len(r) = IF a + 1 <= b THEN b - a ELSE 0
        /\ \A i \in 1 .. b - a : r[i] = w[a + i]
    BY <1>1, <1>2
  <2> HIDE DEF s, r
  <2>3. ASSUME NEW i \in 1 .. Len(s) PROVE s[i] = r[i]
    <3>1. i \in 1 .. b - a /\ a + i \in 1 .. Len(w)  BY <1>1, <2>1
    <3> QED  BY <1>1, <2>1, <2>2, <3>1
  <2>4. s = r
    <3>1. Len(s) = Len(r)  BY <2>1, <2>2
    <3> QED  BY <2>1, <2>2, <2>3, <3>1, SeqEqual
  <2> QED  BY <2>4 DEF s, r
<1>5. SubSeq(v, a + 1, Len(w) + 1) = Append(SubSeq(w, a + 1, Len(w)), x)
  <2> DEFINE s == SubSeq(v, a + 1, Len(w) + 1)
             r == SubSeq(w, a + 1, Len(w))
  <2>1. /\ s \in Seq(Nat) /\ Len(s) = Len(w) + 1 - a
        /\ \A i \in 1 .. Len(w) + 1 - a : s[i] = v[a + i]
    BY <1>1, <1>3
  <2>2. /\ r \in Seq(Nat) /\ Len(r) = Len(w) - a
        /\ \A i \in 1 .. Len(w) - a : r[i] = w[a + i]
    BY <1>1, <1>2
  <2> HIDE DEF s, r
  <2>3. /\ Append(r, x) \in Seq(Nat) /\ Len(Append(r, x)) = Len(r) + 1
        /\ \A i \in 1 .. Len(r) : Append(r, x)[i] = r[i]
        /\ Append(r, x)[Len(r) + 1] = x
    BY <2>2
  <2>4. ASSUME NEW i \in 1 .. Len(s) PROVE s[i] = Append(r, x)[i]
    <3>1. CASE i <= Len(w) - a
      <4>1. i \in 1 .. Len(w) - a /\ a + i \in 1 .. Len(w) /\ i \in 1 .. Len(r)
            /\ i \in 1 .. Len(w) + 1 - a
        BY <1>1, <2>1, <2>2, <3>1
      <4> QED  BY <1>1, <2>1, <2>2, <2>3, <4>1
    <3>2. CASE i = Len(w) - a + 1
      <4>1. a + i = Len(w) + 1 /\ i = Len(r) + 1 /\ i \in 1 .. Len(w) + 1 - a
        BY <1>1, <2>1, <2>2, <3>2
      <4> QED  BY <1>1, <2>1, <2>3, <4>1
    <3>3. i <= Len(w) - a \/ i = Len(w) - a + 1  BY <1>1, <2>1
    <3> QED  BY <3>1, <3>2, <3>3
  <2>5. s = Append(r, x)
    <3>1. Len(s) = Len(Append(r, x))  BY <1>1, <2>1, <2>2, <2>3
    <3> QED  BY <2>1, <2>3, <2>4, <3>1, SeqEqual
  <2> QED  BY <2>5 DEF s, r
<1> QED  BY <1>4, <1>5 DEF v

LEMMA EmptyCut ==
    ASSUME NEW w \in Seq(Nat), NEW a \in 0 .. Len(w), NEW b \in 0 .. Len(w), a <= b
    PROVE  SubSeq(w, a + 1, b) = <<>> <=> a = b
OBVIOUS

\* The files, without their history variable
GapFree(fs, w) ==
    \E cut \in [0 .. Gone -> 0 .. Len(w)] :
        /\ cut[0] = Len(w)
        /\ \A i \in 0 .. Backups : /\ cut[i + 1] <= cut[i]
                                   /\ fs[i] = SubSeq(w, cut[i + 1] + 1, cut[i])

\* A line at the end of the file that is written to
LEMMA GapFreeAppend ==
    ASSUME NEW fs \in [0 .. Backups -> Seq(Nat)], NEW w \in Seq(Nat), NEW x \in Nat, GapFree(fs, w)
    PROVE  GapFree([fs EXCEPT ![0] = Append(@, x)], Append(w, x))
<1>1. PICK cut \in [0 .. Gone -> 0 .. Len(w)] :
          /\ cut[0] = Len(w)
          /\ \A i \in 0 .. Backups : /\ cut[i + 1] <= cut[i]
                                     /\ fs[i] = SubSeq(w, cut[i + 1] + 1, cut[i])
  BY DEF GapFree
<1> DEFINE v == Append(w, x)
           gs == [fs EXCEPT ![0] = Append(@, x)]
           later == [cut EXCEPT ![0] = Len(w) + 1]
<1>2. Backups \in Nat \ {0} /\ Gone = Backups + 1  BY CrashLogAssumption DEF Gone
<1>3. v \in Seq(Nat) /\ Len(v) = Len(w) + 1 /\ Len(w) \in Nat  OBVIOUS
<1>4. /\ later \in [0 .. Gone -> 0 .. Len(v)] /\ later[0] = Len(w) + 1
      /\ \A i \in 1 .. Gone : later[i] = cut[i] /\ cut[i] \in 0 .. Len(w)
      /\ gs[0] = Append(fs[0], x) /\ \A i \in 1 .. Backups : gs[i] = fs[i]
  <2>1. later \in [0 .. Gone -> 0 .. Len(v)] /\ later[0] = Len(w) + 1  BY <1>2, <1>3
  <2>2. \A i \in 1 .. Gone : later[i] = cut[i] /\ cut[i] \in 0 .. Len(w)  BY <1>2
  <2>3. gs[0] = Append(fs[0], x)  BY <1>2
  <2>4. \A i \in 1 .. Backups : gs[i] = fs[i]  BY <1>2
  <2> QED  BY <2>1, <2>2, <2>3, <2>4
<1> HIDE DEF v, gs, later
<1>5. ASSUME NEW i \in 0 .. Backups
      PROVE  later[i + 1] <= later[i] /\ gs[i] = SubSeq(v, later[i + 1] + 1, later[i])
  <2>1. i + 1 \in 1 .. Gone /\ later[i + 1] = cut[i + 1] /\ cut[i + 1] \in 0 .. Len(w)
    BY <1>2, <1>4
  <2>2. CASE i = 0
    <3>1. later[i] = Len(w) + 1 /\ gs[i] = Append(fs[i], x) /\ cut[i] = Len(w)
      BY <1>1, <1>4, <2>2
    <3>2. fs[i] = SubSeq(w, cut[i + 1] + 1, Len(w))  BY <1>1, <3>1
    <3>3. gs[i] = SubSeq(v, cut[i + 1] + 1, Len(w) + 1)
      BY <2>1, <3>1, <3>2, CutOfAppend DEF v
    <3>4. later[i] = Len(w) + 1 /\ later[i + 1] <= Len(w) + 1  BY <1>3, <2>1, <3>1
    <3> QED  BY <2>1, <3>3, <3>4
  <2>3. CASE i # 0
    <3>1. later[i] = cut[i] /\ gs[i] = fs[i] /\ cut[i] \in 0 .. Len(w)
      <4>1. i \in 1 .. Gone /\ i \in 1 .. Backups  BY <1>2, <2>3
      <4> QED  BY <1>4, <4>1
    <3>2. SubSeq(v, cut[i + 1] + 1, cut[i]) = SubSeq(w, cut[i + 1] + 1, cut[i])
      BY <2>1, <3>1, CutOfAppend DEF v
    <3> QED  BY <1>1, <2>1, <3>1, <3>2
  <2> QED  BY <2>2, <2>3
<1>6. GapFree(gs, v)  BY <1>3, <1>4, <1>5 DEF GapFree
<1> QED  BY <1>6 DEF gs, v

\* The oldest backup is removed.
LEMMA GapFreeRemove ==
    ASSUME NEW fs \in [0 .. Backups -> Seq(Nat)], NEW w \in Seq(Nat), GapFree(fs, w)
    PROVE  GapFree([fs EXCEPT ![Backups] = <<>>], w)
<1>1. PICK cut \in [0 .. Gone -> 0 .. Len(w)] :
          /\ cut[0] = Len(w)
          /\ \A i \in 0 .. Backups : /\ cut[i + 1] <= cut[i]
                                     /\ fs[i] = SubSeq(w, cut[i + 1] + 1, cut[i])
  BY DEF GapFree
<1> DEFINE gs == [fs EXCEPT ![Backups] = <<>>]
           later == [cut EXCEPT ![Gone] = cut[Backups]]
<1>2. Backups \in Nat \ {0} /\ Gone = Backups + 1  BY CrashLogAssumption DEF Gone
<1>3. later \in [0 .. Gone -> 0 .. Len(w)] /\ later[0] = Len(w)
  <2>1. Backups \in 0 .. Gone /\ Gone \in 0 .. Gone /\ 0 \in 0 .. Gone /\ Gone # 0  BY <1>2
  <2>2. cut[Backups] \in 0 .. Len(w)  BY <2>1
  <2> QED  BY <1>1, <2>1, <2>2
<1>4. ASSUME NEW i \in 0 .. Backups
      PROVE  later[i + 1] <= later[i] /\ gs[i] = SubSeq(w, later[i + 1] + 1, later[i])
  <2>1. /\ later[i] = cut[i] /\ cut[i] \in 0 .. Len(w) /\ i + 1 \in 0 .. Gone
        /\ later[i + 1] = IF i = Backups THEN cut[i] ELSE cut[i + 1]
    BY <1>2
  <2>2. CASE i = Backups
    <3>1. gs[i] = <<>>  BY <2>2
    <3> QED  BY <2>1, <2>2, <3>1, EmptyCut
  <2>3. CASE i # Backups
    <3>1. gs[i] = fs[i]  BY <2>3
    <3> QED  BY <1>1, <2>1, <2>3, <3>1
  <2> QED  BY <2>2, <2>3
<1> HIDE DEF gs, later
<1>5. GapFree(gs, w)  BY <1>3, <1>4 DEF GapFree
<1> QED  BY <1>5 DEF gs

\* A file takes the place of the next older one, which is gone.
LEMMA GapFreeMove ==
    ASSUME NEW fs \in [0 .. Backups -> Seq(Nat)], NEW w \in Seq(Nat), GapFree(fs, w),
           NEW r \in 0 .. Backups - 1, fs[r + 1] = <<>>
    PROVE  GapFree([fs EXCEPT ![r + 1] = fs[r], ![r] = <<>>], w)
<1>1. PICK cut \in [0 .. Gone -> 0 .. Len(w)] :
          /\ cut[0] = Len(w)
          /\ \A i \in 0 .. Backups : /\ cut[i + 1] <= cut[i]
                                     /\ fs[i] = SubSeq(w, cut[i + 1] + 1, cut[i])
  BY DEF GapFree
<1> DEFINE gs == [fs EXCEPT ![r + 1] = fs[r], ![r] = <<>>]
           later == [cut EXCEPT ![r + 1] = cut[r]]
<1>2. Backups \in Nat \ {0} /\ Gone = Backups + 1  BY CrashLogAssumption DEF Gone
<1>3. /\ r \in 0 .. Backups /\ r + 1 \in 0 .. Backups /\ r + 2 \in 0 .. Gone
      /\ r \in 0 .. Gone /\ r + 1 \in 1 .. Gone /\ (r + 1) + 1 = r + 2
  BY <1>2
<1>4. cut[r] \in 0 .. Len(w) /\ cut[r + 1] \in 0 .. Len(w) /\ cut[r + 2] \in 0 .. Len(w)
  BY <1>3
<1>4a. later \in [0 .. Gone -> 0 .. Len(w)] /\ later[0] = Len(w)
  <2>1. 0 # r + 1 /\ 0 \in 0 .. Gone  BY <1>2, <1>3
  <2> QED  BY <1>1, <1>4, <2>1
<1>5. cut[r + 2] = cut[r + 1]
  <2>1. /\ cut[(r + 1) + 1] <= cut[r + 1]
        /\ fs[r + 1] = SubSeq(w, cut[(r + 1) + 1] + 1, cut[r + 1])
    BY <1>1, <1>3
  <2>2. cut[r + 2] <= cut[r + 1] /\ SubSeq(w, cut[r + 2] + 1, cut[r + 1]) = <<>>
    BY <1>3, <2>1
  <2> DEFINE a == cut[r + 2]
             b == cut[r + 1]
  <2>3. a \in 0 .. Len(w) /\ b \in 0 .. Len(w) /\ a <= b /\ SubSeq(w, a + 1, b) = <<>>
    BY <1>4, <2>2
  <2> HIDE DEF a, b
  <2>4. \A c, d \in 0 .. Len(w) : c <= d => (SubSeq(w, c + 1, d) = <<>> <=> c = d)
    BY EmptyCut
  <2>5. a = b  BY <2>3, <2>4
  <2> QED  BY <2>5 DEF a, b
<1>6. ASSUME NEW i \in 0 .. Backups
      PROVE  later[i + 1] <= later[i] /\ gs[i] = SubSeq(w, later[i + 1] + 1, later[i])
  <2>1. i \in 0 .. Gone /\ i + 1 \in 0 .. Gone  BY <1>2
  <2>2. CASE i = r
    <3>1. later[i] = cut[r] /\ later[i + 1] = cut[r] /\ gs[i] = <<>>  BY <1>2, <1>3, <2>2
    <3>2. \A a \in 0 .. Len(w) : a <= a /\ SubSeq(w, a + 1, a) = <<>>  BY EmptyCut
    <3> QED  BY <1>4, <3>1, <3>2
  <2>3. CASE i = r + 1
    <3>1. later[i] = cut[r] /\ later[i + 1] = cut[r + 2] /\ gs[i] = fs[r]  BY <1>2, <1>3, <2>3
    <3>2. cut[r + 1] <= cut[r] /\ fs[r] = SubSeq(w, cut[r + 1] + 1, cut[r])  BY <1>1, <1>3
    <3> QED  BY <1>4, <1>5, <3>1, <3>2
  <2>4. CASE i # r /\ i # r + 1
    <3>1. later[i] = cut[i] /\ later[i + 1] = cut[i + 1] /\ gs[i] = fs[i]  BY <1>2, <2>1, <2>4
    <3> QED  BY <1>1, <3>1
  <2> QED  BY <2>2, <2>3, <2>4
<1> HIDE DEF gs, later
<1>7. GapFree(gs, w)  BY <1>4a, <1>6 DEF GapFree
<1> QED  BY <1>7 DEF gs

-----------------------------------------------------------------------------
(* The order of the handler *)

\* WriteRecentLog comes to every slot that holds a line.
LEMMA ScanIsComplete ==
    ASSUME total \in Nat
    PROVE  /\ ScanOrder \in Seq(0 .. Slots - 1)
           /\ \A i \in 0 .. Slots - 1 :
                  i < total => \E k \in 1 .. Len(ScanOrder) : ScanOrder[k] = i
<1>1. Slots \in Nat \ {0}  BY CrashLogAssumption
<1>2. \A x \in Nat : x % Slots \in 0 .. Slots - 1  BY <1>1
<1>3. \A i \in 0 .. Slots - 1 : i % Slots = i  BY <1>1
<1>4. \A i \in 0 .. Slots - 1 : (i + Slots) % Slots = i  BY <1>1
<1> DEFINE start == IF total >= Slots THEN total % Slots ELSE 0
           count == IF total >= Slots THEN Slots ELSE total
<1>5. start \in 0 .. Slots - 1 /\ count \in 0 .. Slots  BY <1>1, <1>2
<1>6. ScanOrder = [i \in 1 .. count |-> (start + i - 1) % Slots]  BY DEF ScanOrder
<1>7. \A i \in 1 .. count : start + i - 1 \in Nat /\ (start + i - 1) % Slots \in 0 .. Slots - 1
  BY <1>2, <1>5
<1>8. ScanOrder \in [1 .. count -> 0 .. Slots - 1] /\ count \in Nat  BY <1>1, <1>5, <1>6, <1>7
<1>8a. /\ total < Slots => start = 0 /\ count = total
       /\ total >= Slots => count = Slots
  BY <1>1
<1> HIDE DEF start, count
<1>9. ScanOrder \in Seq(0 .. Slots - 1) /\ Len(ScanOrder) = count
  BY <1>8, SeqOfFcn
<1>10. ASSUME NEW i \in 0 .. Slots - 1, i < total
       PROVE  \E k \in 1 .. count : ScanOrder[k] = i
  <2>1. CASE total < Slots
    <3>1. i + 1 \in 1 .. count /\ start + (i + 1) - 1 = i  BY <1>1, <1>8a, <1>10, <2>1
    <3> QED  BY <1>3, <1>6, <3>1
  <2>2. CASE total >= Slots /\ start <= i
    <3>1. i - start + 1 \in 1 .. count /\ start + (i - start + 1) - 1 = i
      BY <1>1, <1>5, <1>8a, <2>2
    <3> QED  BY <1>3, <1>6, <3>1
  <2>3. CASE total >= Slots /\ i < start
    <3>1. i + Slots - start + 1 \in 1 .. count /\ start + (i + Slots - start + 1) - 1 = i + Slots
      BY <1>1, <1>5, <1>8a, <2>3
    <3> QED  BY <1>4, <1>6, <3>1
  <2> QED  BY <1>1, <1>5, <2>1, <2>2, <2>3
<1> QED  BY <1>9, <1>10
-----------------------------------------------------------------------------
(* Types *)

LEMMA LogStepCases ==
    ASSUME [Next]_vars
    PROVE  \/ \E t \in Threads : Reserve(t)
           \/ \E t \in Threads : BeginCopy(t)
           \/ \E t \in Threads : EndCopy(t)
           \/ \E t \in Threads : Lock(t)
           \/ \E t \in Threads : Rotate(t)
           \/ \E t \in Threads : AppendLine(t)
           \/ \E t \in Threads : Fault(t)
           \/ \E t \in Threads : FaultAgain(t)
           \/ \E t \in Threads : Look(t)
           \/ \E t \in Threads : Copy(t)
           \/ \E t \in Threads : Truncate(t)
           \/ Kill \/ Start \/ Refuse \/ UNCHANGED vars
BY DEF Next, Write, Handler

LEMMA Bounds ==
    /\ Slots \in Nat \ {0} /\ Backups \in Nat \ {0} /\ Gone = Backups + 1
    /\ MaxLines \in Nat /\ MaxSessions \in Nat \ {0} /\ None \notin Threads
    /\ Empty \in SlotTypes /\ Empty.line = 0
BY CrashLogAssumption DEF Gone, Empty, SlotTypes

\* What the handler puts at its offset, and what that leaves alone.
LEMMA PutFacts ==
    ASSUME report \in Seq(Entries), NEW e \in Entries, place \in 1 .. Len(report), Put(e)
    PROVE  /\ report' \in Seq(Entries) /\ place' = place + 1 /\ place' \in 1 .. Len(report')
           /\ report'[place'] = e
           /\ \A i \in 1 .. place : report'[i] = report[i]
<1>1. place' = place + 1  BY DEF Put
<1>2. CASE place < Len(report)
  <2>1. report' = [report EXCEPT ![place + 1] = e]  BY <1>2 DEF Put
  <2>2. place + 1 \in 1 .. Len(report)  BY <1>2
  <2> QED  BY <1>1, <2>1, <2>2, SeqReplace
<1>3. CASE place = Len(report)
  <2>1. report' = Append(report, e)  BY <1>3 DEF Put
  <2> QED  BY <1>1, <1>3, <2>1, SeqAppend
<1> QED  BY <1>2, <1>3

LEMMA EntryFacts ==
    ASSUME session \in 1 .. MaxSessions, NEW n \in 0 .. MaxLines, NEW b \in BOOLEAN
    PROVE  [session |-> session, line |-> n, whole |-> b] \in Entries
BY DEF Entries

\* The variables of the threads and of the ring
ThreadTypes == /\ pc \in [Threads -> Pcs] /\ mine \in [Threads -> 0 .. MaxLines]
               /\ at \in [Threads -> 0 .. Slots - 1]

LEMMA ThreadTypesStep == ASSUME LogTypes, [Next]_vars PROVE ThreadTypes'
<1> USE DEF ThreadTypes
<1>1. ThreadTypes  BY DEF LogTypes
<1>2. ASSUME UNCHANGED <<mine, at>>, pc' \in [Threads -> Pcs] PROVE ThreadTypes'
  BY <1>1, <1>2
<1>3. ASSUME NEW t \in Threads, NEW next \in Pcs, pc' = [pc EXCEPT ![t] = next]
      PROVE  pc' \in [Threads -> Pcs]
  BY <1>1, <1>3
<1>4. {"idle", "reserved", "copying", "copied", "rotate", "append", "report"} \subseteq Pcs
  BY DEF Pcs
<1>5. ASSUME UNCHANGED threads PROVE ThreadTypes'  BY <1>1, <1>5 DEF threads
<1>6. ASSUME Die, UNCHANGED <<mine, at>> PROVE ThreadTypes'
  BY <1>1, <1>4, <1>6 DEF Die, Idle
<1>7. ASSUME NEW t \in Threads, Reserve(t) PROVE ThreadTypes'
  <2>1. total % Slots \in 0 .. Slots - 1  BY Bounds DEF LogTypes
  <2>2. lines + 1 \in 0 .. MaxLines  BY <1>7, Bounds DEF Reserve, LogTypes
  <2> QED  BY <1>1, <1>4, <1>7, <2>1, <2>2 DEF Reserve
<1>8. ASSUME NEW t \in Threads, BeginCopy(t) PROVE ThreadTypes'
  BY <1>2, <1>3, <1>4, <1>8 DEF BeginCopy
<1>9. ASSUME NEW t \in Threads, EndCopy(t) PROVE ThreadTypes'
  BY <1>2, <1>3, <1>4, <1>9 DEF EndCopy
<1>10. ASSUME NEW t \in Threads, Lock(t) PROVE ThreadTypes'
  BY <1>2, <1>3, <1>4, <1>10 DEF Lock
<1>11. ASSUME NEW t \in Threads, Rotate(t) PROVE ThreadTypes'
  BY <1>1, <1>2, <1>3, <1>4, <1>11 DEF Rotate
<1>12. ASSUME NEW t \in Threads, AppendLine(t) PROVE ThreadTypes'
  BY <1>2, <1>3, <1>4, <1>12 DEF AppendLine
<1>13. ASSUME NEW t \in Threads, Fault(t) PROVE ThreadTypes'
  BY <1>2, <1>3, <1>4, <1>13 DEF Fault
<1>14. ASSUME NEW t \in Threads, FaultAgain(t) \/ Truncate(t) PROVE ThreadTypes'
  BY <1>6, <1>14 DEF FaultAgain, Truncate
<1>15. ASSUME NEW t \in Threads, Look(t) \/ Copy(t) PROVE ThreadTypes'
  BY <1>5, <1>15 DEF Look, Copy
<1>16. CASE Kill  BY <1>6, <1>16 DEF Kill
<1>17. CASE Start \/ Refuse \/ UNCHANGED vars
  BY <1>5, <1>17 DEF Start, Refuse, vars
<1> QED  BY LogStepCases, <1>7, <1>8, <1>9, <1>10, <1>11, <1>12, <1>13, <1>14, <1>15, <1>16, <1>17

RingTypes == total \in Nat /\ slots \in [0 .. Slots - 1 -> SlotTypes] /\ lines \in 0 .. MaxLines

\* What a copy into the ring does to the slots
LEMMA BeginCopyFacts ==
    ASSUME LogTypes, NEW t \in Threads, BeginCopy(t)
    PROVE  /\ slots' \in [0 .. Slots - 1 -> SlotTypes]
           /\ slots'[at[t]].line = mine[t]
           /\ \A i \in 0 .. Slots - 1 : i # at[t] => slots'[i] = slots[i]
<1>1. at[t] \in 0 .. Slots - 1 /\ mine[t] \in 0 .. MaxLines  BY DEF LogTypes
<1>2. slots \in [0 .. Slots - 1 -> SlotTypes]  BY DEF LogTypes
<1>3. PICK new : /\ new = [line |-> mine[t], busy |-> slots[at[t]].busy \cup {t},
                           torn |-> slots[at[t]].busy # {}]
                 /\ slots' = [slots EXCEPT ![at[t]] = new]
  BY DEF BeginCopy
<1>4. slots[at[t]].busy \subseteq Threads  BY <1>1, <1>2 DEF SlotTypes
<1>5. new \in SlotTypes /\ new.line = mine[t]  BY <1>1, <1>3, <1>4 DEF SlotTypes
<1> QED  BY <1>1, <1>2, <1>3, <1>5

LEMMA EndCopyFacts ==
    ASSUME LogTypes, NEW t \in Threads, EndCopy(t)
    PROVE  /\ slots' \in [0 .. Slots - 1 -> SlotTypes]
           /\ \A i \in 0 .. Slots - 1 : slots'[i].line = slots[i].line
           /\ \A i \in 0 .. Slots - 1 : Quiet(slots[i]) => slots'[i] = slots[i]
<1>1. at[t] \in 0 .. Slots - 1  BY DEF LogTypes
<1>2. slots \in [0 .. Slots - 1 -> SlotTypes]  BY DEF LogTypes
<1>3. PICK new : /\ new = [slots[at[t]] EXCEPT !.busy = slots[at[t]].busy \ {t}]
                 /\ slots' = [slots EXCEPT ![at[t]] = new]
  BY DEF EndCopy
<1>4. slots[at[t]] \in SlotTypes  BY <1>1, <1>2
<1>5. new \in SlotTypes /\ new.line = slots[at[t]].line  BY <1>3, <1>4 DEF SlotTypes
<1>6. Quiet(slots[at[t]]) => new = slots[at[t]]
  <2> SUFFICES ASSUME slots[at[t]].busy = {} PROVE new = slots[at[t]]
    BY DEF Quiet
  <2>1. new = [slots[at[t]] EXCEPT !.busy = slots[at[t]].busy]  BY <1>3
  <2> QED  BY <1>4, <2>1 DEF SlotTypes
<1> QED  BY <1>1, <1>2, <1>3, <1>5, <1>6

LEMMA RingTypesStep == ASSUME LogTypes, [Next]_vars PROVE RingTypes'
<1> USE DEF RingTypes
<1>1. RingTypes  BY DEF LogTypes
<1>2. ASSUME UNCHANGED <<ring, lines>> PROVE RingTypes'  BY <1>1, <1>2 DEF ring
<1>3. ASSUME NEW t \in Threads, Reserve(t) PROVE RingTypes'
  BY <1>1, <1>3, Bounds DEF Reserve
<1>4. ASSUME NEW t \in Threads, BeginCopy(t) PROVE RingTypes'
  BY <1>1, <1>4, BeginCopyFacts DEF BeginCopy
<1>5. ASSUME NEW t \in Threads, EndCopy(t) PROVE RingTypes'
  BY <1>1, <1>5, EndCopyFacts DEF EndCopy
<1>6. CASE Start  BY <1>1, <1>6, Bounds DEF Start
<1>7. CASE Refuse  BY <1>1, <1>7, Bounds DEF Refuse, ring
<1>8. ASSUME ~(\E t \in Threads : Reserve(t) \/ BeginCopy(t) \/ EndCopy(t)), ~Start, ~Refuse
      PROVE  UNCHANGED <<ring, lines>>
  BY <1>8, LogStepCases
     DEF Lock, Rotate, AppendLine, Fault, FaultAgain, Look, Copy, Truncate, Kill, vars
<1> QED  BY <1>2, <1>3, <1>4, <1>5, <1>6, <1>7, <1>8

FileTypes == /\ mutex \in Threads \cup {None}
             /\ files \in [0 .. Backups -> Seq(Nat)] /\ written \in Seq(Nat)
             /\ handle \in 0 .. Gone /\ rotation \in 0 .. Backups /\ moved \in BOOLEAN

\* A launch that is refused: its line goes to file 0, or is all of it.
LEMMA RefuseFacts ==
    ASSUME LogTypes, Refuse
    PROVE  /\ files' \in [0 .. Backups -> Seq(Nat)]
           /\ written' = Append(written, lines + 1) /\ lines + 1 \in Nat
           /\ \/ moved' = TRUE
              \/ UNCHANGED <<handle, moved>> /\ files' = [files EXCEPT ![0] = Append(@, lines + 1)]
           /\ handle' \in 0 .. Gone
<1>1. /\ files \in [0 .. Backups -> Seq(Nat)] /\ lines + 1 \in Nat /\ handle \in 0 .. Gone
      /\ Backups \in Nat
  BY Bounds DEF LogTypes
<1>2. written' = Append(written, lines + 1)  BY DEF Refuse
<1>3. CASE Len(files[0]) > Full
  <2>1. /\ files' = [i \in 0 .. Backups |-> IF i = 0 THEN <<lines + 1>> ELSE files[i - 1]]
        /\ handle' = IF handle = Gone THEN Gone ELSE handle + 1
        /\ moved' = TRUE
    BY <1>3 DEF Refuse
  <2>2. <<lines + 1>> \in Seq(Nat)  BY <1>1
  <2>3. \A i \in 0 .. Backups : i # 0 => files[i - 1] \in Seq(Nat)  BY <1>1
  <2>4. files' \in [0 .. Backups -> Seq(Nat)]  BY <2>1, <2>2, <2>3
  <2>5. handle' \in 0 .. Gone  BY <1>1, <2>1, Bounds
  <2> QED  BY <1>1, <1>2, <2>1, <2>4, <2>5
<1>4. CASE ~(Len(files[0]) > Full)
  <2>1. /\ files' = [files EXCEPT ![0] = Append(@, lines + 1)] /\ UNCHANGED <<handle, moved>>
    BY <1>4 DEF Refuse
  <2>2. Append(files[0], lines + 1) \in Seq(Nat)  BY <1>1
  <2>3. files' \in [0 .. Backups -> Seq(Nat)]  BY <1>1, <2>1, <2>2
  <2> QED  BY <1>1, <1>2, <2>1, <2>3
<1> QED  BY <1>3, <1>4

LEMMA FileTypesStep == ASSUME LogTypes, [Next]_vars PROVE FileTypes'
<1> USE DEF FileTypes
<1>1. FileTypes  BY DEF LogTypes
<1>2. ASSUME UNCHANGED <<mutex, file, moved>> PROVE FileTypes'  BY <1>1, <1>2 DEF file
<1>3. ASSUME Die, UNCHANGED <<file, moved>> PROVE FileTypes'  BY <1>1, <1>3 DEF Die, file
<1>4. ASSUME NEW t \in Threads, Lock(t) PROVE FileTypes'
  BY <1>1, <1>4, Bounds DEF Lock
<1>5. ASSUME NEW t \in Threads, Rotate(t) PROVE FileTypes'
  <2>1. UNCHANGED <<mutex, written, moved>>  BY <1>5 DEF Rotate
  <2>2. handle' \in 0 .. Gone /\ rotation' \in 0 .. Backups
    BY <1>1, <1>5, Bounds DEF Rotate
  <2>3. <<>> \in Seq(Nat)  OBVIOUS
  <2>4. CASE rotation = Backups
    BY <1>1, <1>5, <2>1, <2>2, <2>3, <2>4 DEF Rotate
  <2>5. CASE rotation # Backups
    <3>1. rotation \in 0 .. Backups /\ files[rotation] \in Seq(Nat)  BY <1>1
    <3>2. files' = files \/ files' = [files EXCEPT ![rotation + 1] = files[rotation],
                                                   ![rotation] = <<>>]
      BY <1>5, <2>5 DEF Rotate
    <3> QED  BY <1>1, <2>1, <2>2, <2>3, <3>1, <3>2
  <2> QED  BY <2>4, <2>5
<1>6. ASSUME NEW t \in Threads, AppendLine(t) PROVE FileTypes'
  <2>1. mine[t] \in Nat  BY Bounds DEF LogTypes
  <2>2. \A q \in Seq(Nat) : Append(q, mine[t]) \in Seq(Nat)  BY <2>1
  <2>3. UNCHANGED <<handle, rotation, moved>> /\ mutex' = None /\ written' = Append(written, mine[t])
    BY <1>6 DEF AppendLine
  <2>4. CASE handle = Gone  BY <1>1, <1>6, <2>2, <2>3, <2>4 DEF AppendLine
  <2>5. CASE handle # Gone
    <3>1. handle \in 0 .. Backups /\ files[handle] \in Seq(Nat)  BY <1>1, <2>5, Bounds
    <3>2. files' = [files EXCEPT ![handle] = Append(files[handle], mine[t])]
      BY <1>6, <2>5 DEF AppendLine
    <3> QED  BY <1>1, <2>2, <2>3, <3>1, <3>2
  <2> QED  BY <2>4, <2>5
<1>7. CASE Start  BY <1>1, <1>7, Bounds DEF Start
<1>8. CASE Refuse
  <2>1. UNCHANGED <<mutex, rotation>>  BY <1>8 DEF Refuse
  <2>2. moved' \in BOOLEAN  BY <1>1, <1>8, RefuseFacts
  <2>3. written' \in Seq(Nat)
    <3>1. written' = Append(written, lines + 1) /\ lines + 1 \in Nat  BY <1>8, RefuseFacts
    <3> QED  BY <1>1, <3>1
  <2> QED  BY <1>1, <1>8, <2>1, <2>2, <2>3, RefuseFacts
<1>9. ASSUME NEW t \in Threads, FaultAgain(t) \/ Truncate(t) PROVE FileTypes'
  BY <1>3, <1>9 DEF FaultAgain, Truncate
<1>10. CASE Kill  BY <1>3, <1>10 DEF Kill
<1>11. ASSUME NEW t \in Threads, Reserve(t) \/ BeginCopy(t) \/ EndCopy(t) \/ Fault(t) \/ Look(t) \/ Copy(t)
       PROVE  FileTypes'
  BY <1>2, <1>11 DEF Reserve, BeginCopy, EndCopy, Fault, Look, Copy
<1>12. CASE UNCHANGED vars  BY <1>2, <1>12 DEF vars
<1> QED  BY LogStepCases, <1>4, <1>5, <1>6, <1>7, <1>8, <1>9, <1>10, <1>11, <1>12

CrashTypes == /\ handling \in BOOLEAN /\ scan \in Seq(0 .. Slots - 1) /\ seen \in SlotTypes
              /\ report \in Seq(Entries) /\ place \in Nat
              /\ session \in 1 .. MaxSessions /\ alive \in BOOLEAN /\ complete \in 0 .. session

\* The first slot to be read, and the others
LEMMA ScanFacts ==
    ASSUME LogTypes, scan # <<>>
    PROVE  /\ Head(scan) \in 0 .. Slots - 1 /\ Tail(scan) \in Seq(0 .. Slots - 1)
           /\ slots[Head(scan)] \in SlotTypes
           /\ \A i \in 0 .. Slots - 1 :
                  ToRead(i) => i = Head(scan) \/ \E k \in 1 .. Len(Tail(scan)) : Tail(scan)[k] = i
<1>1. scan \in Seq(0 .. Slots - 1) /\ slots \in [0 .. Slots - 1 -> SlotTypes]  BY DEF LogTypes
<1>2. Head(scan) \in 0 .. Slots - 1 /\ Tail(scan) \in Seq(0 .. Slots - 1)
  BY <1>1, HeadTailProperties
<1>3. /\ Len(Tail(scan)) = Len(scan) - 1 /\ Head(scan) = scan[1]
      /\ \A k \in 1 .. Len(Tail(scan)) : Tail(scan)[k] = scan[k + 1]
  BY <1>1, HeadTailProperties
<1>4. ASSUME NEW k \in 1 .. Len(scan), k # 1
      PROVE  k - 1 \in 1 .. Len(Tail(scan)) /\ Tail(scan)[k - 1] = scan[k]
  BY <1>1, <1>3, <1>4
<1> QED  BY <1>1, <1>2, <1>3, <1>4 DEF ToRead

LEMMA CopyFacts ==
    ASSUME LogTypes, ReportInv, ProcessInv, NEW t \in Threads, Copy(t)
    PROVE  LET e == [session |-> session, line |-> slots[Head(scan)].line,
                     whole |-> Quiet(seen) /\ slots[Head(scan)] = seen]
           IN  /\ report' \in Seq(Entries) /\ place' \in 1 .. Len(report') /\ place' = place + 1
               /\ report'[place'] = e
               /\ \A i \in 1 .. place : report'[i] = report[i]
<1> DEFINE e == [session |-> session, line |-> slots[Head(scan)].line,
                 whole |-> Quiet(seen) /\ slots[Head(scan)] = seen]
<1>1. handling /\ place \in 1 .. Len(report) /\ report \in Seq(Entries) /\ scan # <<>>
  BY DEF Copy, ReportInv, ProcessInv, LogTypes
<1>2. slots[Head(scan)].line \in 0 .. MaxLines  BY <1>1, ScanFacts DEF SlotTypes
<1>3. (Quiet(seen) /\ slots[Head(scan)] = seen) \in BOOLEAN  OBVIOUS
<1>4. session \in 1 .. MaxSessions  BY DEF LogTypes
<1>5. e \in Entries  BY <1>2, <1>3, <1>4, EntryFacts
<1>6. Put(e)  BY DEF Copy
<1> HIDE DEF e
<1>7. /\ report' \in Seq(Entries) /\ place' = place + 1 /\ place' \in 1 .. Len(report')
      /\ report'[place'] = e /\ \A i \in 1 .. place : report'[i] = report[i]
  BY <1>1, <1>5, <1>6, PutFacts
<1> QED  BY <1>7 DEF e

LEMMA FaultFacts ==
    ASSUME LogTypes, NEW t \in Threads, Fault(t)
    PROVE  report' \in Seq(Entries) /\ Len(report') >= 1 /\ report'[1] = Header /\ place' = 1
<1>1. report \in Seq(Entries) /\ session \in 1 .. MaxSessions  BY DEF LogTypes
<1>2. 0 \in 0 .. MaxLines /\ TRUE \in BOOLEAN  BY Bounds
<1>3. Header \in Entries  BY <1>1, <1>2, EntryFacts DEF Header
<1> HIDE DEF Header
<1>4. CASE report = <<>>
  <2>1. report' = <<Header>>  BY <1>4 DEF Fault
  <2>2. /\ <<Header>> \in Seq(Entries) /\ Len(<<Header>>) = 1 /\ <<Header>>[1] = Header
    BY <1>3
  <2>3. place' = 1  BY DEF Fault
  <2>4. Len(report') = 1 /\ report' \in Seq(Entries) /\ report'[1] = Header  BY <2>1, <2>2
  <2> QED  BY <2>3, <2>4
<1>5. CASE report # <<>>
  <2>1. report' = [report EXCEPT ![1] = Header]  BY <1>5 DEF Fault
  <2>2. 1 \in 1 .. Len(report)  BY <1>1, <1>5
  <2>3. /\ [report EXCEPT ![1] = Header] \in Seq(Entries) /\ [report EXCEPT ![1] = Header][1] = Header
        /\ Len([report EXCEPT ![1] = Header]) = Len(report)
    BY <1>1, <1>3, <2>2, SeqReplace
  <2> QED  BY <2>1, <2>2, <2>3 DEF Fault
<1> QED  BY <1>4, <1>5

LEMMA TruncateFacts ==
    ASSUME LogTypes, ReportInv, ProcessInv, NEW t \in Threads, Truncate(t)
    PROVE  /\ report' \in Seq(Entries) /\ Len(report') = place /\ place \in 1 .. Len(report)
           /\ \A i \in 1 .. place : report'[i] = report[i]
<1>1. handling /\ place \in 1 .. Len(report) /\ report \in Seq(Entries)
  BY DEF Truncate, ReportInv, ProcessInv, LogTypes
<1>2. report' = SubSeq(report, 1, place)  BY DEF Truncate
<1>3. \A i \in 1 .. place : report[i] \in Entries  BY <1>1
<1>4. 1 \in Int /\ place \in Int  BY <1>1
<1>5. /\ SubSeq(report, 1, place) \in Seq(Entries)
      /\ Len(SubSeq(report, 1, place)) = IF 1 <= place THEN place - 1 + 1 ELSE 0
      /\ \A i \in 1 .. place - 1 + 1 : SubSeq(report, 1, place)[i] = report[1 + i - 1]
  BY <1>3, <1>4, SubSeqProperties
<1> QED  BY <1>1, <1>2, <1>5

LEMMA CrashTypesStep == ASSUME LogTypes, ReportInv, ProcessInv, [Next]_vars PROVE CrashTypes'
<1> USE DEF CrashTypes
<1>1. CrashTypes  BY DEF LogTypes
<1>2. ASSUME UNCHANGED <<crash, session, alive>> PROVE CrashTypes'  BY <1>1, <1>2 DEF crash
<1>3. <<>> \in Seq(0 .. Slots - 1) /\ Empty \in SlotTypes  BY Bounds
<1>4. ASSUME Die, UNCHANGED <<report, place, session, complete>> PROVE CrashTypes'
  BY <1>1, <1>3, <1>4 DEF Die
<1>5. ASSUME NEW t \in Threads, Fault(t) PROVE CrashTypes'
  <2>1. scan' \in Seq(0 .. Slots - 1)  BY <1>5, ScanIsComplete DEF Fault, LogTypes
  <2>2. report' \in Seq(Entries) /\ place' \in Nat  BY <1>5, FaultFacts
  <2> QED  BY <1>1, <1>3, <1>5, <2>1, <2>2 DEF Fault
<1>6. ASSUME NEW t \in Threads, Look(t) PROVE CrashTypes'
  <2>1. scan' \in Seq(0 .. Slots - 1) /\ seen' \in SlotTypes
    BY <1>1, <1>6, ScanFacts DEF Look
  <2> QED  BY <1>1, <1>6, <2>1 DEF Look
<1>7. ASSUME NEW t \in Threads, Copy(t) PROVE CrashTypes'
  <2>1. scan' \in Seq(0 .. Slots - 1) /\ seen' \in SlotTypes
    BY <1>3, <1>7, ScanFacts DEF Copy
  <2>2. report' \in Seq(Entries) /\ place' \in Nat  BY <1>7, CopyFacts
  <2> QED  BY <1>1, <1>7, <2>1, <2>2 DEF Copy
<1>8. ASSUME NEW t \in Threads, Truncate(t) PROVE CrashTypes'
  <2>1. report' \in Seq(Entries)  BY <1>8, TruncateFacts
  <2>2. UNCHANGED <<place, session>> /\ Die /\ complete' = session  BY <1>8 DEF Truncate
  <2>3. complete' \in 0 .. session'  BY <1>1, <2>2
  <2> QED  BY <1>1, <1>3, <2>1, <2>2, <2>3 DEF Die
<1>9. ASSUME NEW t \in Threads, FaultAgain(t) PROVE CrashTypes'
  BY <1>4, <1>9 DEF FaultAgain
<1>10. CASE Kill  BY <1>4, <1>10 DEF Kill
<1>11. CASE Start  BY <1>1, <1>11, Bounds DEF Start
<1>12. ASSUME NEW t \in Threads,
              Reserve(t) \/ BeginCopy(t) \/ EndCopy(t) \/ Lock(t) \/ Rotate(t) \/ AppendLine(t)
       PROVE  CrashTypes'
  BY <1>2, <1>12 DEF Reserve, BeginCopy, EndCopy, Lock, Rotate, AppendLine
<1>13. CASE Refuse \/ UNCHANGED vars  BY <1>2, <1>13 DEF Refuse, vars
<1> QED  BY LogStepCases, <1>5, <1>6, <1>7, <1>8, <1>9, <1>10, <1>11, <1>12, <1>13

LEMMA TypesStep == ASSUME LogTypes, ReportInv, ProcessInv, [Next]_vars PROVE LogTypes'
BY ThreadTypesStep, RingTypesStep, FileTypesStep, CrashTypesStep
   DEF ThreadTypes, RingTypes, FileTypes, CrashTypes, LogTypes

-----------------------------------------------------------------------------
(* The files *)

LEMMA ProcessStep == ASSUME LogTypes, ProcessInv, [Next]_vars PROVE ProcessInv'
<1> USE DEF ProcessInv
<1>1. pc \in [Threads -> Pcs]  BY DEF LogTypes
<1>2. CASE Die  BY <1>2 DEF Die, Idle
<1>3. ASSUME UNCHANGED <<pc, alive, handling>> PROVE ProcessInv'  BY <1>3
<1>4. ASSUME NEW t \in Threads, pc[t] # "idle", NEW next \in Pcs \ {"report"},
             pc' = [pc EXCEPT ![t] = next], UNCHANGED <<alive, handling>>
      PROVE  ProcessInv'
  <2>1. alive  BY <1>1, <1>4 DEF Idle
  <2>2. \A u \in Threads : pc'[u] = "report" => pc[u] = "report"  BY <1>1, <1>4
  <2> QED  BY <1>4, <2>1, <2>2
<1>5. {"reserved", "copying", "copied", "rotate", "append", "idle"} \subseteq Pcs \ {"report"}
  BY DEF Pcs
<1>6. ASSUME NEW t \in Threads, Reserve(t) PROVE ProcessInv'
  BY <1>1, <1>6 DEF Reserve, crash
<1>7. ASSUME NEW t \in Threads, BeginCopy(t) \/ EndCopy(t) \/ AppendLine(t) PROVE ProcessInv'
  BY <1>4, <1>5, <1>7 DEF BeginCopy, EndCopy, AppendLine, crash
<1>8. ASSUME NEW t \in Threads, Lock(t) PROVE ProcessInv'
  BY <1>4, <1>5, <1>8 DEF Lock, crash
<1>9. ASSUME NEW t \in Threads, Rotate(t) PROVE ProcessInv'
  BY <1>3, <1>4, <1>5, <1>9 DEF Rotate, crash
<1>10. ASSUME NEW t \in Threads, Fault(t) PROVE ProcessInv'
  BY <1>1, <1>10 DEF Fault
<1>11. ASSUME NEW t \in Threads, FaultAgain(t) \/ Truncate(t) PROVE ProcessInv'
  BY <1>2, <1>11 DEF FaultAgain, Truncate
<1>12. ASSUME NEW t \in Threads, Look(t) \/ Copy(t) PROVE ProcessInv'
  BY <1>3, <1>12 DEF Look, Copy, threads
<1>13. CASE Kill  BY <1>2, <1>13 DEF Kill
<1>14. CASE Start  BY <1>14 DEF Start, threads
<1>15. CASE Refuse \/ UNCHANGED vars  BY <1>3, <1>15 DEF Refuse, vars, threads, crash
<1> QED  BY LogStepCases, <1>6, <1>7, <1>8, <1>9, <1>10, <1>11, <1>12, <1>13, <1>14, <1>15

LEMMA GapIsOfFiles == LogHasNoGap <=> moved \/ GapFree(files, written)
BY DEF LogHasNoGap, GapFree

\* A step of the thread that holds the mutex, or of one that does not want it
LEMMA MutexStep ==
    ASSUME LogTypes, [Next]_vars, \A t \in Threads : pc[t] \in {"rotate", "append"} => mutex = t
    PROVE  \A t \in Threads : pc'[t] \in {"rotate", "append"} => mutex' = t
<1>1. pc \in [Threads -> Pcs] /\ None \notin Threads  BY Bounds DEF LogTypes
<1>2. CASE Die  BY <1>2 DEF Die, Idle
<1>3. ASSUME UNCHANGED <<pc, mutex>> PROVE \A t \in Threads : pc'[t] \in {"rotate", "append"} => mutex' = t
  BY <1>3
<1>4. ASSUME NEW t \in Threads,
             Reserve(t) \/ BeginCopy(t) \/ EndCopy(t) \/ Fault(t)
      PROVE  \A u \in Threads : pc'[u] \in {"rotate", "append"} => mutex' = u
  BY <1>1, <1>4 DEF Reserve, BeginCopy, EndCopy, Fault
<1>5. ASSUME NEW t \in Threads, Lock(t)
      PROVE  \A u \in Threads : pc'[u] \in {"rotate", "append"} => mutex' = u
  BY <1>1, <1>5 DEF Lock
<1>6. ASSUME NEW t \in Threads, Rotate(t)
      PROVE  \A u \in Threads : pc'[u] \in {"rotate", "append"} => mutex' = u
  BY <1>1, <1>6 DEF Rotate
<1>7. ASSUME NEW t \in Threads, AppendLine(t)
      PROVE  \A u \in Threads : pc'[u] \in {"rotate", "append"} => mutex' = u
  <2>1. \A u \in Threads \ {t} : pc[u] \notin {"rotate", "append"}  BY <1>7 DEF AppendLine
  <2> QED  BY <1>1, <1>7, <2>1 DEF AppendLine
<1>8. ASSUME NEW t \in Threads, FaultAgain(t) \/ Truncate(t) PROVE Die
  BY <1>8 DEF FaultAgain, Truncate
<1>9. ASSUME NEW t \in Threads, Look(t) \/ Copy(t) PROVE UNCHANGED <<pc, mutex>>
  BY <1>9 DEF Look, Copy, threads
<1>10. Kill => Die  BY DEF Kill
<1>11. Start \/ Refuse \/ UNCHANGED vars => UNCHANGED <<pc, mutex>>
  BY DEF Start, Refuse, vars, threads
<1> QED  BY LogStepCases, <1>2, <1>3, <1>4, <1>5, <1>6, <1>7, <1>8, <1>9, <1>10, <1>11

\* A rotation leaves no gap, wherever it is interrupted (RotateIfNeeded).
LEMMA MovedStays == ASSUME [Next]_vars PROVE moved => moved'
<1>1. ASSUME NEW t \in Threads, Reserve(t) \/ BeginCopy(t) \/ Lock(t) \/ Rotate(t) \/ AppendLine(t)
      PROVE  moved => moved'
  BY <1>1 DEF Reserve, BeginCopy, Lock, Rotate, AppendLine
<1>2. ASSUME NEW t \in Threads, EndCopy(t) PROVE moved => moved'  BY <1>2 DEF EndCopy
<1>3. ASSUME NEW t \in Threads, Fault(t) \/ FaultAgain(t) \/ Look(t) \/ Copy(t) \/ Truncate(t)
      PROVE  moved => moved'
  BY <1>3 DEF Fault, FaultAgain, Look, Copy, Truncate
<1>4. CASE Kill \/ Start \/ Refuse \/ UNCHANGED vars  BY <1>4 DEF Kill, Start, Refuse, vars
<1> QED  BY LogStepCases, <1>1, <1>2, <1>3, <1>4

LEMMA FilesStep == ASSUME LogTypes, ProcessInv, FilesInv, [Next]_vars PROVE FilesInv'
<1> DEFINE Room == \A t \in Threads : pc[t] = "rotate" /\ rotation < Backups
                                          => files[rotation + 1] = <<>>
<1>1. /\ ~moved => handle = 0 /\ Room /\ GapFree(files, written)
      /\ \A t \in Threads : pc[t] \in {"rotate", "append"} => mutex = t
  BY GapIsOfFiles DEF FilesInv
<1>2. SUFFICES ASSUME ~moved' PROVE handle' = 0 /\ Room' /\ GapFree(files, written)'
  BY <1>1, MutexStep, GapIsOfFiles DEF FilesInv, LogHasNoGap, GapFree
<1>3. /\ pc \in [Threads -> Pcs] /\ files \in [0 .. Backups -> Seq(Nat)] /\ written \in Seq(Nat)
      /\ rotation \in 0 .. Backups /\ Backups \in Nat \ {0}
  BY Bounds DEF LogTypes
<1>4. ~moved /\ handle = 0 /\ Room /\ GapFree(files, written)
  <2>1. ~moved  BY <1>2, MovedStays, Zenon
  <2> HIDE DEF Room
  <2> QED  BY <1>1, <2>1, Zenon
<1>5. ASSUME UNCHANGED file, \A t \in Threads : pc'[t] = "rotate" => pc[t] = "rotate"
      PROVE  handle' = 0 /\ Room' /\ GapFree(files, written)'
  BY <1>4, <1>5 DEF file, GapFree
<1>6. ASSUME NEW t \in Threads, Reserve(t) \/ BeginCopy(t) \/ EndCopy(t) \/ Fault(t)
      PROVE  UNCHANGED file /\ \A u \in Threads : pc'[u] = "rotate" => pc[u] = "rotate"
  BY <1>3, <1>6 DEF Reserve, BeginCopy, EndCopy, Fault
<1>7. ASSUME NEW t \in Threads, FaultAgain(t) \/ Truncate(t) \/ Look(t) \/ Copy(t)
      PROVE  UNCHANGED file /\ \A u \in Threads : pc'[u] = "rotate" => pc[u] = "rotate"
  BY <1>7 DEF FaultAgain, Truncate, Look, Copy, Die, Idle, threads
<1>8. ASSUME Kill \/ UNCHANGED vars
      PROVE  UNCHANGED file /\ \A u \in Threads : pc'[u] = "rotate" => pc[u] = "rotate"
  BY <1>8 DEF Kill, Die, Idle, vars, threads
<1>9. ASSUME NEW t \in Threads, Lock(t)
      PROVE  handle' = 0 /\ Room' /\ GapFree(files, written)'
  <2>1. UNCHANGED <<files, handle, written>>  BY <1>9 DEF Lock
  <2>2. \A u \in Threads : pc[u] \notin {"rotate", "append"}  BY <1>1, <1>9, Bounds DEF Lock
  <2>3. \A u \in Threads : pc'[u] = "rotate" => rotation' = Backups
    BY <1>3, <1>9, <2>2 DEF Lock
  <2>4. Room'  BY <1>3, <2>3
  <2>5. GapFree(files', written')  BY <1>4, <2>1
  <2> QED  BY <1>4, <2>1, <2>4, <2>5
<1>10. ASSUME NEW t \in Threads, Rotate(t)
       PROVE  handle' = 0 /\ Room' /\ GapFree(files, written)'
  <2>1. handle' = 0 /\ UNCHANGED written /\ pc[t] = "rotate"  BY <1>4, <1>10 DEF Rotate
  <2>2. CASE rotation = Backups
    <3>1. files' = [files EXCEPT ![Backups] = <<>>] /\ rotation' = Backups - 1
      BY <1>3, <1>10, <2>2 DEF Rotate
    <3>2. GapFree(files', written)  BY <1>3, <1>4, <3>1, GapFreeRemove
    <3>3. files'[rotation' + 1] = <<>>  BY <1>3, <3>1
    <3> QED  BY <2>1, <3>2, <3>3
  <2>3. CASE rotation # Backups
    <3>1. rotation \in 0 .. Backups - 1 /\ files[rotation + 1] = <<>>  BY <1>3, <1>4, <2>1, <2>3
    <3>2. GapFree(files', written) /\ files'[rotation] = <<>>
      <4>1. CASE files[rotation] = <<>>
        BY <1>4, <1>10, <2>3, <4>1 DEF Rotate
      <4>2. CASE files[rotation] # <<>>
        <5>1. files' = [files EXCEPT ![rotation + 1] = files[rotation], ![rotation] = <<>>]
          BY <1>10, <2>3, <4>2 DEF Rotate
        <5>2. GapFree(files', written)  BY <1>3, <1>4, <3>1, <5>1, GapFreeMove
        <5> QED  BY <1>3, <5>1, <5>2
      <4> QED  BY <4>1, <4>2
    <3>3. CASE rotation = 0
      <4>1. \A u \in Threads : pc'[u] # "rotate"
        BY <1>1, <1>3, <1>10, <3>3 DEF Rotate
      <4> QED  BY <2>1, <3>2, <4>1
    <3>4. CASE rotation # 0
      <4>1. rotation' = rotation - 1 /\ rotation' + 1 = rotation
        BY <1>3, <1>10, <3>4 DEF Rotate
      <4> QED  BY <2>1, <3>2, <4>1
    <3> QED  BY <3>3, <3>4
  <2> QED  BY <2>2, <2>3
<1>11. ASSUME NEW t \in Threads, AppendLine(t)
       PROVE  handle' = 0 /\ Room' /\ GapFree(files, written)'
  <2>1. /\ written' = Append(written, mine[t]) /\ UNCHANGED <<handle, rotation>>
        /\ files' = [files EXCEPT ![0] = Append(@, mine[t])]
    BY <1>4, <1>11, Bounds DEF AppendLine
  <2>2. mine[t] \in Nat  BY Bounds DEF LogTypes
  <2>3. GapFree(files', written')  BY <1>3, <1>4, <2>1, <2>2, GapFreeAppend
  <2>4. \A u \in Threads : pc'[u] # "rotate"  BY <1>1, <1>3, <1>11 DEF AppendLine
  <2> QED  BY <1>4, <2>1, <2>3, <2>4
<1>12. CASE Start
  <2>1. UNCHANGED <<files, written>> /\ handle' = 0 /\ pc' = Idle
    BY <1>12 DEF Start, threads, ProcessInv
  <2> QED  BY <1>4, <2>1 DEF Idle
<1>13. CASE Refuse
  <2>1. /\ written' = Append(written, lines + 1) /\ lines + 1 \in Nat /\ handle' = 0
        /\ files' = [files EXCEPT ![0] = Append(@, lines + 1)]
    BY <1>2, <1>4, <1>13, RefuseFacts
  <2>2. UNCHANGED <<pc, rotation>>  BY <1>13 DEF Refuse, threads
  <2>3. GapFree(files', written')  BY <1>3, <1>4, <2>1, GapFreeAppend
  <2>4. rotation < Backups => files'[rotation + 1] = files[rotation + 1]  BY <1>3, <2>1
  <2> QED  BY <1>4, <2>1, <2>2, <2>3, <2>4
<1> QED  BY LogStepCases, <1>5, <1>6, <1>7, <1>8, <1>9, <1>10, <1>11, <1>12, <1>13

-----------------------------------------------------------------------------
(* The ring *)

\* The steps that neither take a slot nor fill one
Elsewhere == /\ UNCHANGED <<mine, at, ring>> /\ lines' \in {lines, lines + 1}
             /\ \A t \in Threads : pc'[t] \in {"reserved", "copying"} => pc'[t] = pc[t]

LEMMA ElsewhereFacts ==
    ASSUME LogTypes, [Next]_vars
    PROVE  \/ Elsewhere
           \/ \E t \in Threads : Reserve(t) \/ BeginCopy(t) \/ EndCopy(t)
           \/ Start
<1> USE DEF Elsewhere
<1>1. pc \in [Threads -> Pcs]  BY DEF LogTypes
<1>2. ASSUME NEW t \in Threads, Lock(t) PROVE Elsewhere  BY <1>1, <1>2 DEF Lock
<1>3. ASSUME NEW t \in Threads, Rotate(t) PROVE Elsewhere  BY <1>1, <1>3 DEF Rotate
<1>4. ASSUME NEW t \in Threads, AppendLine(t) PROVE Elsewhere  BY <1>1, <1>4 DEF AppendLine
<1>5. ASSUME NEW t \in Threads, Fault(t) PROVE Elsewhere  BY <1>1, <1>5 DEF Fault
<1>6. ASSUME NEW t \in Threads, Look(t) \/ Copy(t) PROVE Elsewhere
  BY <1>6 DEF Look, Copy, threads
<1>7. ASSUME NEW t \in Threads, FaultAgain(t) \/ Truncate(t) PROVE Elsewhere
  BY <1>7 DEF FaultAgain, Truncate, Die, Idle
<1>8. CASE Kill  BY <1>8 DEF Kill, Die, Idle
<1>9. CASE Refuse \/ UNCHANGED vars  BY <1>9 DEF Refuse, vars, threads
<1> QED  BY LogStepCases, <1>2, <1>3, <1>4, <1>5, <1>6, <1>7, <1>8, <1>9

LEMMA RingStep == ASSUME LogTypes, ProcessInv, RingInv, [Next]_vars PROVE RingInv'
<1>1. /\ pc \in [Threads -> Pcs] /\ mine \in [Threads -> 0 .. MaxLines]
      /\ at \in [Threads -> 0 .. Slots - 1] /\ total \in Nat /\ lines \in 0 .. MaxLines
      /\ slots \in [0 .. Slots - 1 -> SlotTypes]
  BY DEF LogTypes
<1>2. \A i \in 0 .. Slots - 1 : slots[i].line \in Nat  BY <1>1, Bounds DEF SlotTypes
<1>3. CASE Elsewhere
  BY <1>1, <1>2, <1>3, Bounds DEF Elsewhere, ring, RingInv
<1>4. ASSUME NEW t \in Threads, Reserve(t) PROVE RingInv'
  <2>1. /\ lines' = lines + 1 /\ total' = total + 1 /\ UNCHANGED slots
        /\ pc' = [pc EXCEPT ![t] = "reserved"] /\ mine' = [mine EXCEPT ![t] = lines + 1]
        /\ at' = [at EXCEPT ![t] = total % Slots]
    BY <1>4 DEF Reserve
  <2>2. total % Slots <= total
    <3>1. Slots \in Nat \ {0}  BY Bounds
    <3>2. CASE total < Slots  BY <1>1, <3>1, <3>2
    <3>3. CASE total >= Slots
      <4>1. total % Slots \in 0 .. Slots - 1  BY <1>1, <3>1
      <4> QED  BY <1>1, <3>1, <3>3, <4>1
    <3> QED  BY <1>1, <3>1, <3>2, <3>3
  <2>3. ASSUME NEW u \in Threads, pc'[u] = "reserved"
        PROVE  /\ mine'[u] \in 1 .. lines'
               /\ \A i \in 0 .. Slots - 1 : slots'[i].line # mine'[u]
               /\ \A v \in Threads \ {u} : pc'[v] = "reserved" => mine'[v] # mine'[u]
    <3>1. CASE u = t
      <4>1. mine'[u] = lines + 1  BY <1>1, <2>1, <3>1
      <4>2. \A v \in Threads \ {u} : pc'[v] = "reserved" => mine'[v] \in 1 .. lines
        BY <1>1, <2>1, <3>1 DEF RingInv
      <4>3. \A i \in 0 .. Slots - 1 : slots[i].line <= lines  BY DEF RingInv
      <4> QED  BY <1>1, <1>2, <2>1, <4>1, <4>2, <4>3, Bounds
    <3>2. CASE u # t
      <4>1. pc[u] = "reserved" /\ mine'[u] = mine[u]  BY <1>1, <2>1, <2>3, <3>2
      <4>2. /\ mine[u] \in 1 .. lines /\ \A i \in 0 .. Slots - 1 : slots[i].line # mine[u]
            /\ \A v \in Threads \ {u} : pc[v] = "reserved" => mine[v] # mine[u]
        BY <4>1 DEF RingInv
      <4>3. ASSUME NEW v \in Threads \ {u}, pc'[v] = "reserved" PROVE mine'[v] # mine'[u]
        <5>1. CASE v = t  BY <1>1, <2>1, <4>1, <4>2, <5>1, Bounds
        <5>2. CASE v # t  BY <1>1, <2>1, <4>1, <4>2, <4>3, <5>2
        <5> QED  BY <5>1, <5>2
      <4> QED  BY <1>1, <2>1, <4>1, <4>2, <4>3, Bounds
    <3> QED  BY <3>1, <3>2
  <2>4. \A u \in Threads : pc'[u] \in {"reserved", "copying"} => at'[u] < total'
    BY <1>1, <2>1, <2>2, Bounds DEF RingInv
  <2>5. \A i \in 0 .. Slots - 1 :
            /\ slots'[i].line <= lines'
            /\ slots'[i].line # 0 =>
                   /\ i < total'
                   /\ \A j \in 0 .. Slots - 1 : j # i => slots'[j].line # slots'[i].line
    BY <1>1, <1>2, <2>1, Bounds DEF RingInv
  <2> QED  BY <2>3, <2>4, <2>5 DEF RingInv
<1>5. ASSUME NEW t \in Threads, BeginCopy(t) PROVE RingInv'
  <2>1. /\ pc[t] = "reserved" /\ pc' = [pc EXCEPT ![t] = "copying"]
        /\ UNCHANGED <<mine, at, total, lines>>
    BY <1>5 DEF BeginCopy
  <2>2. /\ slots'[at[t]].line = mine[t]
        /\ \A i \in 0 .. Slots - 1 : i # at[t] => slots'[i] = slots[i]
    BY <1>5, BeginCopyFacts
  <2>3. /\ mine[t] \in 1 .. lines /\ \A i \in 0 .. Slots - 1 : slots[i].line # mine[t]
        /\ \A v \in Threads \ {t} : pc[v] = "reserved" => mine[v] # mine[t]
        /\ at[t] < total /\ at[t] \in 0 .. Slots - 1
    BY <1>1, <2>1 DEF RingInv
  <2>4. \A u \in Threads : pc'[u] = "reserved" => u # t /\ pc[u] = "reserved"
    BY <1>1, <2>1
  <2>5. ASSUME NEW u \in Threads, pc'[u] = "reserved"
        PROVE  /\ mine'[u] \in 1 .. lines'
               /\ \A i \in 0 .. Slots - 1 : slots'[i].line # mine'[u]
               /\ \A v \in Threads \ {u} : pc'[v] = "reserved" => mine'[v] # mine'[u]
    <3>1. mine[u] \in 1 .. lines /\ mine[u] # mine[t]  BY <2>3, <2>4, <2>5 DEF RingInv
    <3>2. \A i \in 0 .. Slots - 1 : slots'[i].line # mine[u]
      BY <2>2, <2>4, <2>5, <3>1 DEF RingInv
    <3>3. \A v \in Threads \ {u} : pc'[v] = "reserved" => mine[v] # mine[u]
      BY <2>4, <2>5 DEF RingInv
    <3> QED  BY <2>1, <3>1, <3>2, <3>3
  <2>6. \A u \in Threads : pc'[u] \in {"reserved", "copying"} => at'[u] < total'
    BY <1>1, <2>1, <2>3 DEF RingInv
  <2>7. ASSUME NEW i \in 0 .. Slots - 1
        PROVE  /\ slots'[i].line <= lines'
               /\ slots'[i].line # 0 =>
                   /\ i < total'
                   /\ \A j \in 0 .. Slots - 1 : j # i => slots'[j].line # slots'[i].line
    <3>1. CASE i = at[t]
      BY <1>1, <2>1, <2>2, <2>3, <3>1, Bounds
    <3>2. CASE i # at[t]
      <4>1. /\ slots'[i] = slots[i] /\ slots[i].line <= lines
            /\ slots[i].line # 0 =>
                   /\ i < total
                   /\ \A j \in 0 .. Slots - 1 : j # i => slots[j].line # slots[i].line
        BY <2>2, <3>2 DEF RingInv
      <4>2. ASSUME NEW j \in 0 .. Slots - 1, j # i, slots[i].line # 0
            PROVE  slots'[j].line # slots[i].line
        <5>1. CASE j = at[t]  BY <2>2, <2>3, <5>1
        <5>2. CASE j # at[t]  BY <2>2, <4>1, <4>2, <5>2
        <5> QED  BY <5>1, <5>2
      <4> QED  BY <2>1, <4>1, <4>2
    <3> QED  BY <3>1, <3>2
  <2> QED  BY <2>5, <2>6, <2>7 DEF RingInv
<1>6. ASSUME NEW t \in Threads, EndCopy(t) PROVE RingInv'
  <2>1. /\ pc' = [pc EXCEPT ![t] = "copied"] /\ UNCHANGED <<mine, at, total, lines>>
    BY <1>6 DEF EndCopy
  <2>2. \A i \in 0 .. Slots - 1 : slots'[i].line = slots[i].line  BY <1>6, EndCopyFacts
  <2>3. \A u \in Threads : pc'[u] \in {"reserved", "copying"} => pc'[u] = pc[u]
    BY <1>1, <2>1
  <2> QED  BY <2>1, <2>2, <2>3 DEF RingInv
<1>7. CASE Start
  <2>1. /\ pc' = Idle /\ \A i \in 0 .. Slots - 1 : slots'[i].line = 0
        /\ UNCHANGED lines
    BY <1>7, Bounds DEF Start, threads, ProcessInv
  <2> QED  BY <1>1, <2>1, Bounds DEF RingInv, Idle
<1> QED  BY ElsewhereFacts, <1>3, <1>4, <1>5, <1>6, <1>7

-----------------------------------------------------------------------------
(* The report *)

LEMMA ReportStep == ASSUME LogTypes, ProcessInv, ReportInv, [Next]_vars PROVE ReportInv'
<1> USE DEF ReportInv
<1>1. /\ report \in Seq(Entries) /\ session \in 1 .. MaxSessions /\ complete \in 0 .. session
      /\ MaxSessions \in Nat
  BY Bounds DEF LogTypes
<1>2. ASSUME UNCHANGED <<crash, session, alive>> PROVE ReportInv'  BY <1>2 DEF crash
<1>3. ASSUME Die, UNCHANGED <<report, place, session, complete>> PROVE ReportInv'
  BY <1>3 DEF Die
<1>4. ASSUME NEW t \in Threads, Fault(t) PROVE ReportInv'
  <2>1. Len(report') >= 1 /\ report'[1] = Header /\ place' = 1 /\ report' \in Seq(Entries)
    BY <1>4, FaultFacts
  <2>2. Header.session = session  BY DEF Header
  <2>3. complete' = 0 /\ UNCHANGED <<session, alive>>  BY <1>4 DEF Fault
  <2>4. \A i \in 1 .. place' : report'[i].session = session'  BY <2>1, <2>2, <2>3
  <2>5. place' \in 1 .. Len(report')  BY <2>1
  <2> QED  BY <1>1, <2>3, <2>4, <2>5
<1>5. ASSUME NEW t \in Threads, Look(t) PROVE ReportInv'
  BY <1>5 DEF Look
<1>6. ASSUME NEW t \in Threads, Copy(t) PROVE ReportInv'
  <2>1. /\ place' \in 1 .. Len(report') /\ place' = place + 1
        /\ report'[place'].session = session
        /\ \A i \in 1 .. place : report'[i] = report[i]
    BY <1>6, CopyFacts
  <2>2. handling  BY <1>6 DEF Copy, ProcessInv
  <2>3. UNCHANGED <<handling, complete, session, alive>>  BY <1>6 DEF Copy
  <2>4. complete = 0 /\ place \in Nat /\ \A i \in 1 .. place : report[i].session = session
    BY <2>2
  <2>5. ASSUME NEW i \in 1 .. place' PROVE report'[i].session = session'
    <3>1. i \in 1 .. place \/ i = place'  BY <2>1, <2>4
    <3> QED  BY <2>1, <2>3, <2>4, <3>1
  <2> QED  BY <2>1, <2>3, <2>4, <2>5
<1>7. ASSUME NEW t \in Threads, Truncate(t) PROVE ReportInv'
  <2>1. /\ report' \in Seq(Entries) /\ Len(report') = place /\ place \in 1 .. Len(report)
        /\ \A i \in 1 .. place : report'[i] = report[i]
    BY <1>7, TruncateFacts
  <2>2. handling  BY <1>7 DEF Truncate, ProcessInv
  <2>3. ~handling' /\ ~alive' /\ complete' = session /\ UNCHANGED session
    BY <1>7 DEF Truncate, Die
  <2>4. \A i \in 1 .. Len(report') : report'[i].session = session  BY <2>1, <2>2
  <2>5. report' # <<>>  BY <2>1
  <2> QED  BY <2>3, <2>4, <2>5
<1>8. ASSUME NEW t \in Threads, FaultAgain(t) PROVE ReportInv'
  BY <1>3, <1>8 DEF FaultAgain
<1>9. CASE Kill  BY <1>3, <1>9 DEF Kill
<1>10. CASE Start
  <2>1. ~handling' /\ session' = session + 1 /\ UNCHANGED <<report, complete>>
    BY <1>10 DEF Start, ProcessInv
  <2> QED  BY <1>1, <2>1
<1>11. ASSUME NEW t \in Threads,
              Reserve(t) \/ BeginCopy(t) \/ EndCopy(t) \/ Lock(t) \/ Rotate(t) \/ AppendLine(t)
       PROVE  ReportInv'
  BY <1>2, <1>11 DEF Reserve, BeginCopy, EndCopy, Lock, Rotate, AppendLine
<1>12. CASE Refuse \/ UNCHANGED vars  BY <1>2, <1>12 DEF Refuse, vars
<1> QED  BY LogStepCases, <1>4, <1>5, <1>6, <1>7, <1>8, <1>9, <1>10, <1>11, <1>12

KeptLine(n) ==
    /\ n \in 1 .. lines
    /\ \A t \in Threads : pc[t] = "reserved" => mine[t] # n
    /\ \A i \in 0 .. Slots - 1 :
           slots[i].line = n => Quiet(slots[i]) /\ (Reported(n) \/ ToRead(i))

SeenInv == scan # <<>> /\ seen # Empty /\ slots[Head(scan)].line \in kept
               => seen = slots[Head(scan)]

LEMMA KeptIs == KeptInv <=> (handling => (\A n \in kept : KeptLine(n)) /\ SeenInv)
BY DEF KeptInv, KeptLine, SeenInv

\* When a thread faults, every line that is whole is safe and still to be read.
LEMMA KeptAtFault ==
    ASSUME LogTypes, RingInv, NEW t \in Threads, Fault(t)
    PROVE  KeptInv'
<1>1. /\ kept' = Whole /\ scan' = ScanOrder /\ seen' = Empty /\ UNCHANGED <<mine, at, slots, lines>>
      /\ pc' = [pc EXCEPT ![t] = "report"]
  BY DEF Fault, ring
<1>2. /\ pc \in [Threads -> Pcs] /\ slots \in [0 .. Slots - 1 -> SlotTypes] /\ total \in Nat
      /\ lines \in Nat /\ MaxLines \in Nat
  BY Bounds DEF LogTypes
<1>3. SeenInv'  BY <1>1 DEF SeenInv, Empty
<1>4. ASSUME NEW n \in kept' PROVE KeptLine(n)'
  <2>1. PICK k \in 0 .. Slots - 1 :
            /\ n = slots[k].line /\ Quiet(slots[k]) /\ slots[k].line # 0
            /\ \A u \in Threads : pc[u] \in {"reserved", "copying"} => at[u] # k
    BY <1>1, <1>4 DEF Whole
  <2>2. slots[k].line <= lines /\ k < total
        /\ \A j \in 0 .. Slots - 1 : j # k => slots[j].line # slots[k].line
    BY <2>1 DEF RingInv
  <2>3. slots[k].line \in Nat  BY <1>2 DEF SlotTypes
  <2>4. n \in 1 .. lines  BY <1>2, <2>1, <2>2, <2>3
  <2>5. \A u \in Threads : pc'[u] = "reserved" => mine[u] # n
    BY <1>1, <1>2, <2>1 DEF RingInv
  <2>6. ASSUME NEW i \in 0 .. Slots - 1, slots[i].line = n PROVE Quiet(slots[i]) /\ ToRead(i)'
    <3>1. i = k  BY <2>1, <2>2, <2>6
    <3>2. \E m \in 1 .. Len(ScanOrder) : ScanOrder[m] = i  BY <1>2, <2>2, <3>1, ScanIsComplete
    <3> QED  BY <1>1, <2>1, <3>1, <3>2 DEF ToRead
  <2> QED  BY <1>1, <2>4, <2>5, <2>6 DEF KeptLine
<1> QED  BY <1>3, <1>4, KeptIs DEF KeptInv, KeptLine, SeenInv

\* A writer that fills a slot never brings back a line that was kept.
LEMMA KeptAtWrite ==
    ASSUME LogTypes, RingInv, KeptInv, UNCHANGED crash,
           Elsewhere \/ \E t \in Threads : Reserve(t) \/ BeginCopy(t) \/ EndCopy(t)
    PROVE  KeptInv'
<1> SUFFICES ASSUME handling PROVE KeptInv'
  BY DEF KeptInv, crash
<1>1. (\A n \in kept : KeptLine(n)) /\ SeenInv  BY KeptIs
<1>2. UNCHANGED <<scan, seen, report, place, kept, handling>>  BY DEF crash
<1>3. /\ pc \in [Threads -> Pcs] /\ slots \in [0 .. Slots - 1 -> SlotTypes] /\ lines \in Nat
      /\ mine \in [Threads -> 0 .. MaxLines] /\ at \in [Threads -> 0 .. Slots - 1]
      /\ MaxLines \in Nat /\ scan \in Seq(0 .. Slots - 1)
  BY Bounds DEF LogTypes
<1>4. \A n : (Reported(n))' = Reported(n)  BY <1>2 DEF Reported
<1>5. \A i : (ToRead(i))' = ToRead(i)  BY <1>2 DEF ToRead
<1>6. scan # <<>> => Head(scan) \in 0 .. Slots - 1  BY ScanFacts
<1>7. CASE Elsewhere
  BY <1>1, <1>2, <1>3, <1>4, <1>5, <1>7, KeptIs
     DEF Elsewhere, ring, KeptInv, KeptLine, SeenInv, Reported, ToRead
<1>8. ASSUME NEW t \in Threads, Reserve(t) PROVE KeptInv'
  <2>1. /\ lines' = lines + 1 /\ UNCHANGED slots /\ pc' = [pc EXCEPT ![t] = "reserved"]
        /\ mine' = [mine EXCEPT ![t] = lines + 1]
    BY <1>8 DEF Reserve
  <2>2. ASSUME NEW n \in kept PROVE KeptLine(n)'
    <3>1. KeptLine(n)  BY <1>1
    <3>2. n \in 1 .. lines' /\ n # lines + 1  BY <1>3, <2>1, <3>1 DEF KeptLine
    <3>3. \A u \in Threads : pc'[u] = "reserved" => mine'[u] # n
      BY <1>3, <2>1, <3>1, <3>2 DEF KeptLine
    <3> QED  BY <1>2, <2>1, <3>1, <3>2, <3>3 DEF KeptLine, Reported, ToRead
  <2>3. SeenInv'  BY <1>1, <1>2, <2>1 DEF SeenInv
  <2> QED  BY <1>2, <2>2, <2>3 DEF KeptInv, KeptLine, SeenInv
<1>9. ASSUME NEW t \in Threads, BeginCopy(t) PROVE KeptInv'
  <2>1. pc[t] = "reserved" /\ UNCHANGED <<mine, lines>> /\ pc' = [pc EXCEPT ![t] = "copying"]
    BY <1>9 DEF BeginCopy
  <2>2. /\ slots'[at[t]].line = mine[t]
        /\ \A i \in 0 .. Slots - 1 : i # at[t] => slots'[i] = slots[i]
    BY <1>9, BeginCopyFacts
  <2>3. \A n \in kept : mine[t] # n  BY <1>1, <2>1 DEF KeptLine
  <2>4. \A i \in 0 .. Slots - 1 : slots'[i].line \in kept => slots'[i] = slots[i]
    BY <2>2, <2>3
  <2>5. ASSUME NEW n \in kept PROVE KeptLine(n)'
    <3>1. KeptLine(n)  BY <1>1
    <3>2. \A u \in Threads : pc'[u] = "reserved" => mine'[u] # n
      BY <1>3, <2>1, <3>1 DEF KeptLine
    <3>3. \A i \in 0 .. Slots - 1 : slots'[i].line = n => slots'[i] = slots[i]
      BY <2>4
    <3> QED  BY <1>2, <2>1, <3>1, <3>2, <3>3 DEF KeptLine, Reported, ToRead
  <2>6. SeenInv'  BY <1>1, <1>2, <1>6, <2>4 DEF SeenInv
  <2> QED  BY <1>2, <2>5, <2>6 DEF KeptInv, KeptLine, SeenInv
<1>10. ASSUME NEW t \in Threads, EndCopy(t) PROVE KeptInv'
  <2>1. UNCHANGED <<mine, lines>> /\ pc' = [pc EXCEPT ![t] = "copied"]
    BY <1>10 DEF EndCopy
  <2>2. /\ \A i \in 0 .. Slots - 1 : slots'[i].line = slots[i].line
        /\ \A i \in 0 .. Slots - 1 : Quiet(slots[i]) => slots'[i] = slots[i]
    BY <1>10, EndCopyFacts
  <2>3. \A i \in 0 .. Slots - 1 : slots'[i].line \in kept => slots'[i] = slots[i]
    BY <1>1, <2>2 DEF KeptLine
  <2>4. ASSUME NEW n \in kept PROVE KeptLine(n)'
    <3>1. KeptLine(n)  BY <1>1
    <3>2. \A u \in Threads : pc'[u] = "reserved" => mine'[u] # n
      BY <1>3, <2>1, <3>1 DEF KeptLine
    <3>3. \A i \in 0 .. Slots - 1 : slots'[i].line = n => slots'[i] = slots[i]
      BY <2>3
    <3> QED  BY <1>2, <2>1, <3>1, <3>2, <3>3 DEF KeptLine, Reported, ToRead
  <2>5. SeenInv'  BY <1>1, <1>2, <1>6, <2>3 DEF SeenInv
  <2> QED  BY <1>2, <2>4, <2>5 DEF KeptInv, KeptLine, SeenInv
<1> QED  BY <1>7, <1>8, <1>9, <1>10

\* The handler passes a kept line only when it has reported it.
LEMMA KeptAtLook ==
    ASSUME LogTypes, ProcessInv, KeptInv, NEW t \in Threads, Look(t)
    PROVE  KeptInv'
<1>1. handling /\ scan # <<>> /\ seen = Empty /\ UNCHANGED <<pc, mine, slots, lines, kept, report, place>>
  BY DEF Look, ProcessInv, threads, ring
<1>2. \A n \in kept : KeptLine(n)  BY <1>1, KeptIs
<1>3. CASE slots[Head(scan)].line = 0
  <2>1. scan' = Tail(scan) /\ seen' = Empty  BY <1>1, <1>3 DEF Look
  <2>2. ASSUME NEW n \in kept PROVE KeptLine(n)'
    <3>1. KeptLine(n) /\ n # 0  BY <1>2 DEF KeptLine
    <3>2. \A i \in 0 .. Slots - 1 : slots[i].line = n /\ ToRead(i) => ToRead(i)'
      BY <1>1, <1>3, <2>1, <3>1, ScanFacts DEF ToRead
    <3>3. Reported(n)' = Reported(n)  BY <1>1 DEF Reported
    <3> QED  BY <1>1, <3>1, <3>2, <3>3 DEF KeptLine
  <2>3. SeenInv'  BY <2>1 DEF SeenInv, Empty
  <2> QED  BY <1>1, <2>2, <2>3 DEF KeptInv, KeptLine, SeenInv
<1>4. CASE slots[Head(scan)].line # 0
  <2>1. UNCHANGED scan /\ seen' = slots[Head(scan)]  BY <1>1, <1>4 DEF Look
  <2>2. \A n \in kept : KeptLine(n)'
    BY <1>1, <1>2, <2>1 DEF KeptLine, Reported, ToRead
  <2>3. SeenInv'  BY <1>1, <2>1 DEF SeenInv
  <2> QED  BY <1>1, <2>2, <2>3 DEF KeptInv, KeptLine, SeenInv
<1> QED  BY <1>3, <1>4

LEMMA KeptAtCopy ==
    ASSUME LogTypes, ProcessInv, ReportInv, KeptInv, NEW t \in Threads, Copy(t)
    PROVE  KeptInv'
<1>1. /\ handling /\ scan # <<>> /\ seen # Empty /\ scan' = Tail(scan) /\ seen' = Empty
      /\ UNCHANGED <<pc, mine, slots, lines, kept>>
  BY DEF Copy, ProcessInv, threads, ring
<1>2. (\A n \in kept : KeptLine(n)) /\ SeenInv  BY <1>1, KeptIs
<1>3. /\ place \in Nat /\ place' = place + 1
      /\ report'[place'].line = slots[Head(scan)].line
      /\ report'[place'].whole = (Quiet(seen) /\ slots[Head(scan)] = seen)
      /\ \A i \in 1 .. place : report'[i] = report[i]
  <2>1. place \in Nat  BY DEF LogTypes
  <2>2. PICK e : /\ e = [session |-> session, line |-> slots[Head(scan)].line,
                         whole |-> Quiet(seen) /\ slots[Head(scan)] = seen]
                 /\ place' = place + 1 /\ report'[place'] = e
                 /\ \A i \in 1 .. place : report'[i] = report[i]
    BY CopyFacts
  <2>3. e.line = slots[Head(scan)].line /\ e.whole = (Quiet(seen) /\ slots[Head(scan)] = seen)
    BY <2>2
  <2> QED  BY <2>1, <2>2, <2>3
<1>4. ASSUME NEW n \in kept PROVE KeptLine(n)'
  <2>1. KeptLine(n)  BY <1>2
  <2>2. Reported(n) => Reported(n)'  BY <1>3 DEF Reported
  <2>3. ASSUME NEW i \in 0 .. Slots - 1, slots[i].line = n
        PROVE  Reported(n)' \/ ToRead(i)'
    <3>1. CASE i = Head(scan)
      <4>1. seen = slots[i] /\ Quiet(slots[i])
        BY <1>1, <1>2, <2>1, <2>3, <3>1 DEF SeenInv, KeptLine
      <4>2. report'[place'].line = n /\ report'[place'].whole
        BY <1>3, <2>3, <3>1, <4>1
      <4>3. place' \in 1 .. place'  BY <1>3
      <4> QED  BY <4>2, <4>3 DEF Reported
    <3>2. CASE i # Head(scan)
      <4>1. Reported(n) \/ ToRead(i)  BY <2>1, <2>3 DEF KeptLine
      <4>2. ToRead(i) => ToRead(i)'  BY <1>1, <3>2, ScanFacts DEF ToRead
      <4> QED  BY <2>2, <4>1, <4>2
    <3> QED  BY <3>1, <3>2
  <2> QED  BY <1>1, <2>1, <2>3 DEF KeptLine
<1>5. SeenInv'  BY <1>1 DEF SeenInv
<1> QED  BY <1>1, <1>4, <1>5 DEF KeptInv, KeptLine, SeenInv

LEMMA KeptStep ==
    ASSUME LogTypes, ProcessInv, RingInv, ReportInv, KeptInv, [Next]_vars
    PROVE  KeptInv'
<1>1. ASSUME ~handling' PROVE KeptInv'  BY <1>1 DEF KeptInv
<1>2. ASSUME NEW t \in Threads, Fault(t) PROVE KeptInv'  BY <1>2, KeptAtFault
<1>3. ASSUME NEW t \in Threads, Look(t) PROVE KeptInv'  BY <1>3, KeptAtLook
<1>4. ASSUME NEW t \in Threads, Copy(t) PROVE KeptInv'  BY <1>4, KeptAtCopy
<1>5. ASSUME NEW t \in Threads, FaultAgain(t) \/ Truncate(t) PROVE KeptInv'
  BY <1>1, <1>5 DEF FaultAgain, Truncate, Die
<1>6. CASE Kill  BY <1>1, <1>6 DEF Kill, Die
<1>7. CASE Start  BY <1>1, <1>7 DEF Start, ProcessInv
<1>8. ASSUME NEW t \in Threads,
             Reserve(t) \/ BeginCopy(t) \/ EndCopy(t) \/ Lock(t) \/ Rotate(t) \/ AppendLine(t)
      PROVE  UNCHANGED crash /\ UNCHANGED alive
  BY <1>8 DEF Reserve, BeginCopy, EndCopy, Lock, Rotate, AppendLine
<1>9. Refuse \/ UNCHANGED vars => UNCHANGED crash /\ UNCHANGED alive  BY DEF Refuse, vars
<1>10. CASE UNCHANGED crash /\ UNCHANGED alive
  <2>1. CASE Start  BY <1>7, <2>1
  <2>2. CASE ~Start  BY <1>10, <2>2, ElsewhereFacts, KeptAtWrite
  <2> QED  BY <2>1, <2>2
<1> QED  BY LogStepCases, <1>2, <1>3, <1>4, <1>5, <1>6, <1>7, <1>8, <1>9, <1>10

\* A report that is complete is left alone until the next start.
LEMMA CompleteStep ==
    ASSUME LogTypes, ProcessInv, RingInv, ReportInv, KeptInv, CompleteInv, [Next]_vars
    PROVE  CompleteInv'
<1> USE DEF CompleteInv
<1>1. session \in 1 .. MaxSessions /\ complete \in 0 .. session /\ MaxSessions \in Nat
  BY Bounds DEF LogTypes
<1>2. alive => complete # session  BY DEF ReportInv
<1>3. ASSUME alive, UNCHANGED <<complete, session>> PROVE CompleteInv'  BY <1>2, <1>3
<1>4. ASSUME NEW t \in Threads, Truncate(t) PROVE CompleteInv'
  <2>1. handling /\ scan = <<>> /\ UNCHANGED <<slots, kept>>
    BY <1>4 DEF Truncate, ProcessInv, ring
  <2>2. \A n \in kept : KeptLine(n)  BY <2>1, KeptIs
  <2>3. /\ Len(report') = place /\ \A i \in 1 .. place : report'[i] = report[i]
    BY <1>4, TruncateFacts
  <2>4. \A i : ~ToRead(i)  BY <2>1 DEF ToRead
  <2>5. ASSUME NEW n \in kept
        PROVE  \/ \E i \in 1 .. Len(report') : report'[i].line = n /\ report'[i].whole
               \/ \A i \in 0 .. Slots - 1 : slots'[i].line # n
    BY <2>1, <2>2, <2>3, <2>4 DEF KeptLine, Reported
  <2> QED  BY <2>1, <2>5
<1>5. CASE Start  BY <1>1, <1>5 DEF Start
<1>6. CASE UNCHANGED vars  BY <1>6 DEF vars, ring, crash
<1>7. ASSUME NEW t \in Threads, Fault(t) PROVE CompleteInv'  BY <1>1, <1>7 DEF Fault
<1>8. ASSUME NEW t \in Threads,
             Reserve(t) \/ BeginCopy(t) \/ EndCopy(t) \/ Lock(t) \/ Rotate(t) \/ AppendLine(t)
      PROVE  alive /\ UNCHANGED <<complete, session>>
  <2>1. UNCHANGED <<complete, session>>
    BY <1>8 DEF Reserve, BeginCopy, EndCopy, Lock, Rotate, AppendLine, crash
  <2>2. pc[t] # "idle" \/ alive  BY <1>8 DEF Reserve, BeginCopy, EndCopy, Lock, Rotate, AppendLine
  <2> QED  BY <2>1, <2>2 DEF ProcessInv, Idle
<1>9. ASSUME NEW t \in Threads, FaultAgain(t) \/ Look(t) \/ Copy(t)
      PROVE  alive /\ UNCHANGED <<complete, session>>
  BY <1>9 DEF FaultAgain, Look, Copy, ProcessInv, Idle
<1>10. Kill \/ Refuse => alive /\ UNCHANGED <<complete, session>>
  BY DEF Kill, Refuse, crash
<1> QED  BY LogStepCases, <1>3, <1>4, <1>5, <1>6, <1>7, <1>8, <1>9, <1>10

-----------------------------------------------------------------------------
(* Theorems *)

LEMMA InitLog == Init => IInv
<1> SUFFICES ASSUME Init PROVE IInv
  OBVIOUS
<1>1. <<>> \in Seq(Nat) /\ <<>> \in Seq(Entries) /\ <<>> \in Seq(0 .. Slots - 1)  OBVIOUS
<1>2. LogTypes  BY <1>1, Bounds DEF Init, LogTypes, Idle, Pcs
<1>3. ProcessInv  BY DEF Init, ProcessInv, Idle
<1>4. GapFree(files, written)
  <2> DEFINE cut == [i \in 0 .. Gone |-> 0]
  <2>1. cut \in [0 .. Gone -> 0 .. Len(written)] /\ cut[0] = Len(written)
    BY Bounds DEF Init
  <2>2. \A w \in Seq(Nat) : \A a \in 0 .. Len(w) : a <= a /\ SubSeq(w, a + 1, a) = <<>>
    BY EmptyCut
  <2>3. written \in Seq(Nat) /\ 0 \in 0 .. Len(written)  BY DEF Init
  <2>4. SubSeq(written, 0 + 1, 0) = <<>>  BY <2>2, <2>3
  <2>5. ASSUME NEW i \in 0 .. Backups
        PROVE  cut[i + 1] <= cut[i] /\ files[i] = SubSeq(written, cut[i + 1] + 1, cut[i])
    <3>1. i \in 0 .. Gone /\ i + 1 \in 0 .. Gone  BY Bounds
    <3>2. cut[i + 1] = 0 /\ cut[i] = 0  BY <3>1
    <3>3. files[i] = <<>>  BY DEF Init
    <3> HIDE DEF cut
    <3> QED  BY <2>4, <3>2, <3>3
  <2> HIDE DEF cut
  <2> QED  BY <2>1, <2>5 DEF GapFree
<1>5. FilesInv  BY <1>4, GapIsOfFiles DEF Init, FilesInv, Idle
<1>6. RingInv  BY Bounds DEF Init, RingInv, Idle
<1>7. ReportInv /\ KeptInv /\ CompleteInv  BY DEF Init, ReportInv, KeptInv, CompleteInv
<1> QED  BY <1>2, <1>3, <1>5, <1>6, <1>7 DEF IInv

LEMMA LogInvariant == Spec => []IInv
<1>1. IInv /\ [Next]_vars => IInv'
  BY TypesStep, ProcessStep, FilesStep, RingStep, ReportStep, KeptStep, CompleteStep DEF IInv
<1> QED  BY InitLog, <1>1, PTL DEF Spec

\* Every variable has its type, and the mutex is held by the thread that rotates or
\* appends (Log::Write).
THEOREM LogTypesHold == Spec => []TypeOK
<1>1. IInv => TypeOK
  BY DEF IInv, LogTypes, FilesInv, TypeOK, Pcs
<1> QED  BY LogInvariant, <1>1, PTL

\* A finished report holds lines of one session, and every line that was whole in
\* the ring at the crash, unless it was overwritten since (CrashHandlerImpl,
\* WriteRecentLog): for any number of threads and of slots.
THEOREM ReportTellsTheCrash == Spec => []ReportIsOfTheCrash
<1>1. IInv => ReportIsOfTheCrash
  <2> SUFFICES ASSUME IInv PROVE ReportIsOfTheCrash
    OBVIOUS
  <2>1. DOMAIN report = 1 .. Len(report) /\ DOMAIN slots = 0 .. Slots - 1
    BY DEF IInv, LogTypes
  <2> QED  BY <2>1 DEF IInv, ReportInv, CompleteInv, ReportIsOfTheCrash
<1> QED  BY LogInvariant, <1>1, PTL

\* Whatever interrupts a rotation, no line is missing between two that are there
\* (RotateIfNeeded), unless a refused launch has moved the files.
THEOREM NoLineIsSkipped == Spec => []LogHasNoGap
<1>1. IInv => LogHasNoGap  BY DEF IInv, FilesInv
<1> QED  BY LogInvariant, <1>1, PTL

-----------------------------------------------------------------------------
(* The clipboard.  A chain has behind it only tools that have failed, but    *)
(* for the last one; a wait that ended with an exit saw that one end.        *)

ToolsInv ==
    \A c \in Clicks :
        /\ phase[c] = "idle" => tools[c] = <<>> /\ ~fallback[c]
        /\ phase[c] = "pending" =>
               /\ tools[c] # <<>> /\ ~fallback[c]
               /\ \A i \in 1 .. Len(tools[c]) - 1 : tools[c][i] = "failed"
               /\ result[c] = "exited" => tools[c][Len(tools[c])] # "running"
        /\ fallback[c] => \A i \in DOMAIN tools[c] : tools[c][i] = "failed"

ClipInv == ClipTypeOK /\ NoTimeoutOutlivesCommand /\ ToolsInv

-----------------------------------------------------------------------------
(* The chain of commands *)

LEMMA ToolSeqs ==
    ASSUME NEW q \in Seq({"running", "succeeded", "failed"})
    PROVE  /\ DOMAIN q = 1 .. Len(q) /\ Len(q) \in Nat
           /\ q # <<>> => Len(q) >= 1
           /\ Append(q, "running") \in Seq({"running", "succeeded", "failed"})
           /\ Append(q, "running") # <<>> /\ Len(Append(q, "running")) = Len(q) + 1
           /\ \A i \in 1 .. Len(q) : Append(q, "running")[i] = q[i]
           /\ \A i \in 1 .. Len(q), how \in {"succeeded", "failed"} :
                  /\ [q EXCEPT ![i] = how] \in Seq({"running", "succeeded", "failed"})
                  /\ Len([q EXCEPT ![i] = how]) = Len(q)
                  /\ [q EXCEPT ![i] = how] # <<>>
OBVIOUS

\* The two outcomes of TryNextClipboardCommand keep the types ...
LEMMA TryNextTypes ==
    ASSUME ClipTypeOK, NEW c \in Clicks, NEW n \in 0 .. Installed, NEW others \in SUBSET timers,
           TryNextClipboardCommand(c, n, others), UNCHANGED trayAlive, ignored' \in BOOLEAN
    PROVE  ClipTypeOK'
<1> USE DEF ClipTypeOK
<1>1. CASE WriteFallbackFile(c) /\ timers' = others
  BY <1>1, ClipboardAssumption DEF WriteFallbackFile
<1>2. CASE \E rest \in 0 .. n - 1 :
               /\ phase' = [phase EXCEPT ![c] = "pending"]
               /\ remaining' = [remaining EXCEPT ![c] = rest]
               /\ tools' = [tools EXCEPT ![c] = Append(@, "running")]
               /\ timers' = others \cup {<<c, rest>>}
               /\ timeoutId' = [timeoutId EXCEPT ![c] = TRUE]
               /\ stdin' = [stdin EXCEPT ![c] = "unwritten"]
               /\ result' = [result EXCEPT ![c] = "none"]
               /\ UNCHANGED fallback
  <2>1. PICK rest \in 0 .. n - 1 :
               /\ phase' = [phase EXCEPT ![c] = "pending"]
               /\ remaining' = [remaining EXCEPT ![c] = rest]
               /\ tools' = [tools EXCEPT ![c] = Append(@, "running")]
               /\ timers' = others \cup {<<c, rest>>}
               /\ timeoutId' = [timeoutId EXCEPT ![c] = TRUE]
               /\ stdin' = [stdin EXCEPT ![c] = "unwritten"]
               /\ result' = [result EXCEPT ![c] = "none"]
               /\ UNCHANGED fallback
    BY <1>2
  <2>2. rest \in 0 .. Installed  BY ClipboardAssumption
  <2>3. tools' \in [Clicks -> Seq({"running", "succeeded", "failed"})]  BY <2>1, ToolSeqs
  <2>4. timers' \subseteq Clicks \X (0 .. Installed)  BY <2>1, <2>2
  <2> QED  BY <2>1, <2>2, <2>3, <2>4
<1> QED  BY <1>1, <1>2 DEF TryNextClipboardCommand

\* ... leave one timeout for a command that runs, and none for a file ...
LEMMA TryNextTimers ==
    ASSUME ClipTypeOK, NoTimeoutOutlivesCommand, NEW c \in Clicks, NEW n, NEW others \in SUBSET timers,
           \A t \in timers : t \in others <=> t[1] # c,
           TryNextClipboardCommand(c, n, others)
    PROVE  NoTimeoutOutlivesCommand'
<1> USE DEF ClipTypeOK, NoTimeoutOutlivesCommand, Pending
<1>1. CASE WriteFallbackFile(c) /\ timers' = others
  BY <1>1 DEF WriteFallbackFile
<1>2. CASE ~(WriteFallbackFile(c) /\ timers' = others)
  <2>1. PICK rest \in 0 .. n - 1 :
               /\ phase' = [phase EXCEPT ![c] = "pending"]
               /\ remaining' = [remaining EXCEPT ![c] = rest]
               /\ timers' = others \cup {<<c, rest>>}
               /\ timeoutId' = [timeoutId EXCEPT ![c] = TRUE]
    BY <1>2 DEF TryNextClipboardCommand
  <2> QED  BY <2>1
<1> QED  BY <1>1, <1>2

\* ... and go on from tools that have failed.
LEMMA TryNextTools ==
    ASSUME ClipTypeOK, ToolsInv, NEW c \in Clicks, NEW n, NEW others,
           \A i \in DOMAIN tools[c] : tools[c][i] = "failed", ~fallback[c],
           TryNextClipboardCommand(c, n, others)
    PROVE  ToolsInv'
<1> USE DEF ClipTypeOK
<1>1. CASE WriteFallbackFile(c) /\ timers' = others
  BY <1>1 DEF WriteFallbackFile, ToolsInv
<1>2. CASE ~(WriteFallbackFile(c) /\ timers' = others)
  <2>1. /\ phase' = [phase EXCEPT ![c] = "pending"]
        /\ tools' = [tools EXCEPT ![c] = Append(@, "running")]
        /\ result' = [result EXCEPT ![c] = "none"]
        /\ UNCHANGED fallback
    BY <1>2 DEF TryNextClipboardCommand
  <2>2. tools[c] \in Seq({"running", "succeeded", "failed"})  OBVIOUS
  <2>3. /\ tools'[c] = Append(tools[c], "running") /\ ~fallback'[c] /\ result'[c] = "none"
        /\ phase'[c] = "pending"
    BY <2>1
  <2>4. \A i \in 1 .. Len(tools'[c]) - 1 : tools'[c][i] = "failed"
    BY <2>2, <2>3, ToolSeqs
  <2>5. \A d \in Clicks \ {c} : UNCHANGED <<phase[d], tools[d], result[d], fallback[d]>>
    BY <2>1
  <2>6. Append(tools[c], "running") # <<>>  BY <2>2, ToolSeqs
  <2> HIDE DEF ClipTypeOK
  <2> USE DEF ToolsInv
  <2>7. ASSUME NEW d \in Clicks, d # c
        PROVE  UNCHANGED <<phase[d], tools[d], result[d], fallback[d]>>
    BY <2>5, <2>7
  <2>8. tools'[c] # <<>>  BY <2>3, <2>6
  <2> QED  BY <2>3, <2>4, <2>7, <2>8, SMTT(30)
<1> QED  BY <1>1, <1>2

-----------------------------------------------------------------------------
(* The steps *)

LEMMA StepClip == ASSUME ClipInv, [ClipNext]_clipVars PROVE ClipInv'
<1> USE DEF ClipInv, Set
<1>1. ASSUME NEW c \in Clicks, CopyToClipboard(c) PROVE ClipInv'
  <2>1. PICK n \in 0 .. Installed : TryNextClipboardCommand(c, n, timers)
    BY <1>1 DEF CopyToClipboard
  <2>2. phase[c] = "idle" /\ UNCHANGED trayAlive /\ ignored' \in BOOLEAN
    BY <1>1 DEF CopyToClipboard, EnsureSigpipeIgnored
  <2>3. ClipTypeOK'  BY <2>1, <2>2, TryNextTypes
  <2>4. \A t \in timers : t[1] # c  BY <2>2 DEF NoTimeoutOutlivesCommand
  <2>5. NoTimeoutOutlivesCommand'  BY <2>1, <2>4, TryNextTimers
  <2>6. tools[c] = <<>> /\ ~fallback[c]  BY <2>2 DEF ToolsInv
  <2>7. ToolsInv'  BY <2>1, <2>6, TryNextTools
  <2> QED  BY <2>3, <2>5, <2>7
<1>2. ASSUME NEW c \in Clicks, ToolEnds(c) PROVE ClipInv'
  <2>1. PICK i \in DOMAIN tools[c], how \in {"succeeded", "failed"} :
            /\ tools[c][i] = "running" /\ tools' = [tools EXCEPT ![c][i] = how]
            /\ UNCHANGED <<ignored, trayAlive, phase, remaining, timers, timeoutId, stdin, result,
                           fallback>>
    BY <1>2 DEF ToolEnds
  <2>2. tools[c] \in Seq({"running", "succeeded", "failed"})  BY DEF ClipTypeOK
  <2>3. tools' = [tools EXCEPT ![c] = [tools[c] EXCEPT ![i] = how]]  BY <2>1 DEF ClipTypeOK
  <2>4. i \in 1 .. Len(tools[c])  BY <2>1, <2>2, ToolSeqs
  <2>5. ClipTypeOK'  BY <2>1, <2>2, <2>3, <2>4, ToolSeqs DEF ClipTypeOK
  <2>6. NoTimeoutOutlivesCommand'  BY <2>1 DEF NoTimeoutOutlivesCommand, Pending
  <2>7. ~fallback[c] /\ phase[c] # "idle" /\ (phase[c] = "pending" => i = Len(tools[c]))
    BY <2>1, <2>2, <2>4, ToolSeqs DEF ToolsInv
  <2>8. /\ Len(tools'[c]) = Len(tools[c]) /\ tools'[c] # <<>>
        /\ \A j \in 1 .. Len(tools[c]) : j # i => tools'[c][j] = tools[c][j]
        /\ tools'[c][i] # "running"
    BY <2>2, <2>3, <2>4, ToolSeqs DEF ClipTypeOK
  <2>9. \A d \in Clicks \ {c} : tools'[d] = tools[d]  BY <2>3 DEF ClipTypeOK
  <2>10. phase[c] = "pending" =>
             \A j \in 1 .. Len(tools'[c]) - 1 : tools'[c][j] = "failed"
    <3>1. Len(tools[c]) \in Nat  BY <2>2, ToolSeqs
    <3>2. phase[c] = "pending" => \A j \in 1 .. Len(tools[c]) - 1 : tools[c][j] = "failed"
      BY DEF ToolsInv
    <3> QED  BY <2>4, <2>7, <2>8, <3>1, <3>2
  <2>11. ToolsInv'  BY <2>1, <2>4, <2>7, <2>8, <2>9, <2>10 DEF ToolsInv
  <2> QED  BY <2>5, <2>6, <2>11
<1>3. ASSUME NEW c \in Clicks, WriteText(c) PROVE ClipInv'
  <2>1. ClipTypeOK'  BY <1>3 DEF WriteText, ClipTypeOK
  <2>2. UNCHANGED <<phase, remaining, tools, timers, timeoutId, fallback>>  BY <1>3 DEF WriteText
  <2>3. NoTimeoutOutlivesCommand'  BY <2>2 DEF NoTimeoutOutlivesCommand, Pending
  <2>4. \A d \in Clicks : result'[d] = "exited" => result[d] = "exited"
    BY <1>3 DEF WriteText, ClipTypeOK
  <2>5. ToolsInv'  BY <2>2, <2>4 DEF ToolsInv
  <2> QED  BY <2>1, <2>3, <2>5
<1>4. ASSUME NEW c \in Clicks, CommunicationEnds(c) PROVE ClipInv'
  <2>1. ClipTypeOK'  BY <1>4 DEF CommunicationEnds, ClipTypeOK
  <2>2. UNCHANGED <<phase, remaining, tools, timers, timeoutId, fallback>>
        /\ tools[c][Len(tools[c])] # "running"
    BY <1>4 DEF CommunicationEnds, Last
  <2>3. NoTimeoutOutlivesCommand'  BY <2>2 DEF NoTimeoutOutlivesCommand, Pending
  <2>4. \A d \in Clicks : d # c => result'[d] = result[d]
    BY <1>4 DEF CommunicationEnds, ClipTypeOK
  <2>5. ToolsInv'  BY <2>2, <2>4 DEF ToolsInv
  <2> QED  BY <2>1, <2>3, <2>5
<1>5. ASSUME NEW c \in Clicks, NEW n \in 0 .. Installed, OnCommandTimeout(c, n) PROVE ClipInv'
  <2>1. ClipTypeOK'  BY <1>5 DEF OnCommandTimeout, ClipTypeOK
  <2>2. /\ <<c, n>> \in timers /\ timers' = timers \ {<<c, n>>}
        /\ timeoutId' = [timeoutId EXCEPT ![c] = FALSE]
        /\ result' = [result EXCEPT ![c] = "error"]
        /\ UNCHANGED <<phase, remaining, tools, fallback>>
    BY <1>5 DEF OnCommandTimeout
  <2>3. n = remaining[c]  BY <2>2 DEF NoTimeoutOutlivesCommand, Pending
  <2>4. NoTimeoutOutlivesCommand'
    BY <2>2, <2>3 DEF NoTimeoutOutlivesCommand, Pending, ClipTypeOK
  <2>5. \A d \in Clicks : result'[d] = "exited" => result[d] = "exited"
    BY <2>2 DEF ClipTypeOK
  <2>6. ToolsInv'  BY <2>2, <2>5 DEF ToolsInv
  <2> QED  BY <2>1, <2>4, <2>6
<1>6. ASSUME NEW c \in Clicks, OnClipboardCommandDone(c) PROVE ClipInv'
  <2>1. phase[c] = "pending" /\ result[c] # "none" /\ UNCHANGED <<ignored, trayAlive>>
    BY <1>6 DEF OnClipboardCommandDone
  <2>2. RemoveTimeout(c) \in SUBSET timers  BY DEF RemoveTimeout
  <2>3. \A t \in timers : t \in RemoveTimeout(c) <=> t[1] # c
    BY <2>1 DEF RemoveTimeout, NoTimeoutOutlivesCommand, Pending, ClipTypeOK
  <2>4. CASE TreatAsSuccess(c)
    <3>1. /\ phase' = [phase EXCEPT ![c] = "done"]
          /\ timers' = RemoveTimeout(c) /\ timeoutId' = [timeoutId EXCEPT ![c] = FALSE]
          /\ UNCHANGED <<remaining, tools, stdin, result, fallback>>
      BY <1>6, <2>4 DEF OnClipboardCommandDone
    <3>2. ClipTypeOK'  BY <2>1, <2>2, <3>1 DEF ClipTypeOK
    <3>3. NoTimeoutOutlivesCommand'
      BY <2>2, <2>3, <3>1 DEF NoTimeoutOutlivesCommand, Pending, ClipTypeOK
    <3>4. ToolsInv'  BY <2>1, <3>1 DEF ToolsInv, ClipTypeOK
    <3> QED  BY <3>2, <3>3, <3>4
  <2>5. CASE ~TreatAsSuccess(c)
    <3>1. TryNextClipboardCommand(c, remaining[c], RemoveTimeout(c))
      BY <1>6, <2>5 DEF OnClipboardCommandDone
    <3>2. remaining[c] \in 0 .. Installed /\ ignored' \in BOOLEAN  BY <2>1 DEF ClipTypeOK
    <3>3. ClipTypeOK'  BY <2>1, <2>2, <3>1, <3>2, TryNextTypes
    <3>4. NoTimeoutOutlivesCommand'  BY <2>2, <2>3, <3>1, TryNextTimers
    <3>5. result[c] = "exited" /\ tools[c][Len(tools[c])] # "succeeded"
      BY <2>5 DEF TreatAsSuccess, Last
    <3>6. tools[c] \in Seq({"running", "succeeded", "failed"})  BY DEF ClipTypeOK
    <3>7. tools[c] # <<>> /\ tools[c][Len(tools[c])] = "failed"
          /\ \A i \in 1 .. Len(tools[c]) - 1 : tools[c][i] = "failed"
      BY <2>1, <3>5, <3>6, ToolSeqs DEF ToolsInv
    <3>8. \A i \in DOMAIN tools[c] : tools[c][i] = "failed"
      BY <3>6, <3>7, ToolSeqs
    <3>9. ToolsInv'  BY <2>1, <3>1, <3>8, TryNextTools DEF ToolsInv
    <3> QED  BY <3>3, <3>4, <3>9
  <2> QED  BY <2>4, <2>5
<1>7. CASE UNCHANGED clipVars
  BY <1>7 DEF clipVars, clip, ClipTypeOK, NoTimeoutOutlivesCommand, Pending, ToolsInv
<1> QED  BY <1>1, <1>2, <1>3, <1>4, <1>5, <1>6, <1>7 DEF ClipNext, MainLoop

LEMMA InitClip == ClipInit => ClipInv
<1> SUFFICES ASSUME ClipInit PROVE ClipInv
  OBVIOUS
<1>1. ClipTypeOK
  <2>1. <<>> \in Seq({"running", "succeeded", "failed"})  OBVIOUS
  <2>2. tools \in [Clicks -> Seq({"running", "succeeded", "failed"})]
    BY <2>1, Zenon DEF ClipInit
  <2>3. {ignored, trayAlive} \subseteq BOOLEAN /\ timers \subseteq Clicks \X (0 .. Installed)
    BY DEF ClipInit
  <2>4. /\ phase \in [Clicks -> {"idle", "pending", "done"}]
        /\ timeoutId \in [Clicks -> BOOLEAN] /\ fallback \in [Clicks -> BOOLEAN]
        /\ stdin \in [Clicks -> {"unwritten", "written"}]
        /\ result \in [Clicks -> {"none", "exited", "error"}]
    BY DEF ClipInit
  <2>5. remaining \in [Clicks -> 0 .. Installed]  BY ClipboardAssumption DEF ClipInit
  <2> QED  BY <2>2, <2>3, <2>4, <2>5 DEF ClipTypeOK
<1>2. NoTimeoutOutlivesCommand  BY DEF ClipInit, NoTimeoutOutlivesCommand
<1>3. ToolsInv
  <2>1. \A c \in Clicks : phase[c] = "idle" /\ tools[c] = <<>> /\ ~fallback[c]  BY DEF ClipInit
  <2> QED  BY <2>1 DEF ToolsInv
<1> QED  BY <1>1, <1>2, <1>3 DEF ClipInv

LEMMA ClipInvariant == ClipSpec => []ClipInv
BY InitClip, StepClip, PTL DEF ClipSpec

\* No timeout of the main loop points to a command that is deleted, and none is removed
\* in another's place (OnCommandTimeout, OnClipboardCommandDone).
THEOREM TimeoutsEndWithTheirCommand == ClipSpec => []NoTimeoutOutlivesCommand
<1>1. ClipInv => NoTimeoutOutlivesCommand  BY DEF ClipInv
<1> QED  BY ClipInvariant, <1>1, PTL

\* The text goes to the file only when every tool that ran has failed
\* (OnClipboardCommandDone, WriteFallbackFile).
THEOREM FileWhenToolsFailed == ClipSpec => []FileIsLastResort
<1>1. ToolsInv => FileIsLastResort  BY DEF ToolsInv, FileIsLastResort, ToSet
<1>2. ClipInv => FileIsLastResort  BY <1>1 DEF ClipInv
<1> QED  BY ClipInvariant, <1>2, PTL
================================================================================
