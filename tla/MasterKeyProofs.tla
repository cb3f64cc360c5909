--------------------------- MODULE MasterKeyProofs ---------------------------
(***************************************************************************)
(* Proofs about MasterKey.  A load is two steps, Stat and ReadFile, and    *)
(* ReadFile is several reads, with the operator's steps in between: the    *)
(* inductive invariant says what a service may rely on after each of them. *)
(***************************************************************************)
EXTENDS MasterKey, FiniteSetTheorems, SequenceTheorems, TLAPS

File == [mode : Modes, content : Seq(Keys)]

TypeInv ==
    /\ pc \in [Services -> {"idle", "checked", "reading", "raw"}]
    /\ files \in Seq(File)
    /\ path \in 0 .. Len(files)
    /\ changes \in Nat
    /\ fd \in [Services -> 0 .. Len(files)]
    /\ got \in [Services -> Seq(Keys)]
    /\ key \in [Services -> Seq(Keys) \cup {None}]
    /\ calm \in [Services -> BOOLEAN]
    /\ spoilt \in [Services -> BOOLEAN]

(* The parts of one key only.                                              *)
Uniform(c) == \A i \in 1 .. Len(c) : c[i] = c[1]

Begins(g, c) == Len(g) <= Len(c) /\ \A i \in 1 .. Len(g) : g[i] = c[i]

(* What the operator's files hold, whole or not, is of one key.            *)
FilesOK == \A f \in 1 .. Len(files) : Uniform(files[f].content)

(* Where a service stands, and what it has open and has read there.        *)
LoadOK(s) ==
    /\ pc[s] = "reading" <=> fd[s] # 0
    /\ key[s] # None => pc[s] = "idle"
    /\ pc[s] = "checked" \/ (pc[s] = "idle" /\ key[s] = None) => got[s] = << >>
    /\ pc[s] = "reading" /\ ~spoilt[s] => Begins(got[s], files[fd[s]].content)
    /\ pc[s] = "raw" => Len(got[s]) = KeySize /\ (~spoilt[s] => Uniform(got[s]))
    /\ key[s] # None => Len(key[s]) = KeySize /\ (~spoilt[s] => Uniform(key[s]))

(* What has stayed as Stat found it, if nobody came in between.            *)
CalmOK(s) ==
    calm[s] /\ pc[s] \in {"checked", "reading", "raw"} =>
        /\ ~spoilt[s]
        /\ path # 0 /\ files[path].mode \cap DenyMask(FunctionOf[s]) = {}
        /\ pc[s] = "reading" => fd[s] = path
        /\ pc[s] = "raw" => got[s] = files[path].content

IInv == TypeInv /\ FilesOK /\ \A s \in Services : LoadOK(s) /\ CalmOK(s)

Box == [key : Seq(Keys), nonce : Nat, plain : Plaintexts]
BoxOf(x, n) == [key |-> x.key, nonce |-> n, plain |-> x.plain]

SecretOK(x, n) ==
    /\ x.key \in Seq(Keys) /\ x.plain \in Plaintexts
    /\ x.text = << n, BoxOf(x, n) >>

(* Each secret has a nonce of its own, none above their number.            *)
SealedOK ==
    /\ IsFiniteSet(sealed)
    /\ \A x \in sealed : \E n \in 1 .. Cardinality(sealed) : SecretOK(x, n)
    /\ \A x, y \in sealed : x.text[1] = y.text[1] => x = y
----------------------------------------------------------------------------
(* Reading on from where a reader stands gives the whole of the content.   *)
LEMMA ReadOn ==
    ASSUME NEW S, NEW g \in Seq(S), NEW c \in Seq(S), Begins(g, c)
    PROVE  g \o SubSeq(c, Len(g) + 1, Len(c)) = c
<1>1. Len(g) \in Nat /\ Len(c) \in Nat /\ Len(g) <= Len(c)
  BY DEF Begins
<1> DEFINE rest == SubSeq(c, Len(g) + 1, Len(c))
<1>2. rest \in Seq(S) /\ Len(rest) = Len(c) - Len(g)
      /\ \A i \in 1 .. Len(rest) : rest[i] = c[Len(g) + i]
  BY <1>1
<1> HIDE DEF rest
<1>3. g \o rest \in Seq(S) /\ Len(g \o rest) = Len(c)
  BY <1>1, <1>2
<1>4. \A i \in 1 .. Len(c) : (g \o rest)[i] = c[i]
  BY <1>1, <1>2 DEF Begins
<1>5. g \o rest = c
  BY <1>3, <1>4, SeqEqual
<1> QED
  BY <1>5 DEF rest

(* A reader who has nothing left to read has read the whole content.       *)
LEMMA ReadToEnd ==
    ASSUME NEW S, NEW g \in Seq(S), NEW c \in Seq(S), Begins(g, c),
           SubSeq(c, Len(g) + 1, Len(c)) = << >>
    PROVE  g = c
<1>1. g \o << >> = c
  BY ReadOn
<1> QED
  BY <1>1

(* The empty sequence begins every other, and each begins itself.          *)
LEMMA BeginsFacts ==
    ASSUME NEW S, NEW c \in Seq(S)
    PROVE  Begins(<< >>, c) /\ Begins(c, c)
BY DEF Begins

(* A key that is written on stays of one key.                              *)
LEMMA UniformAppend ==
    ASSUME NEW S, NEW c \in Seq(S), NEW k \in S, Uniform(c), c # << >> => k = c[1]
    PROVE  Uniform(Append(c, k)) /\ \A g \in Seq(S) : Begins(g, c) => Begins(g, Append(c, k))
<1>1. Uniform(Append(c, k))
  <2>1. CASE c = << >>
    BY <2>1 DEF Uniform
  <2>2. CASE c # << >>
    BY <2>2 DEF Uniform
  <2> QED
    BY <2>1, <2>2
<1>2. \A g \in Seq(S) : Begins(g, c) => Begins(g, Append(c, k))
  BY DEF Begins
<1> QED
  BY <1>1, <1>2

(* A whole key, or one with a newline, is a sequence of one key's parts.   *)
LEMMA WholeFacts ==
    ASSUME NEW k \in Keys, NEW size \in Nat
    PROVE  Whole(k, size) \in Seq(Keys) /\ Uniform(Whole(k, size))
           /\ Len(Whole(k, size)) = size
BY DEF Whole, Uniform

(* A sequence of the right size that is of one key is that key.            *)
LEMMA UniformIsWhole ==
    ASSUME NEW c \in Seq(Keys), Uniform(c), Len(c) = KeySize
    PROVE  \E k \in Keys : c = Whole(k, KeySize)
<1>1. c[1] \in Keys /\ c = Whole(c[1], KeySize)
  BY SizeAssumption DEF Uniform, Whole
<1> QED
  BY <1>1

(* One file of many is changed.                                            *)
LEMMA FileChanged ==
    ASSUME NEW fs \in Seq(File), NEW p \in 1 .. Len(fs), NEW new \in File
    PROVE  LET gs == [fs EXCEPT ![p] = new]
           IN  /\ gs \in Seq(File) /\ Len(gs) = Len(fs) /\ gs[p] = new
               /\ \A f \in 1 .. Len(fs) : f # p => gs[f] = fs[f]
BY ExceptSeq
----------------------------------------------------------------------------
(* No file is there, and nobody has read anything.                         *)
LEMMA InitOK == Init => IInv
<1> SUFFICES ASSUME Init PROVE IInv
  OBVIOUS
<1>1. TypeInv
  BY DEF Init, TypeInv
<1>2. FilesOK
  BY DEF Init, FilesOK
<1>3. \A s \in Services : LoadOK(s) /\ CalmOK(s)
  BY DEF Init, LoadOK, CalmOK
<1> QED
  BY <1>1, <1>2, <1>3 DEF IInv

(* A file that takes the path leaves those that are open as they are.      *)
LEMMA ReplaceOK == IInv /\ Replace => IInv'
<1> SUFFICES ASSUME IInv, Replace PROVE IInv'
  OBVIOUS
<1> USE DEF IInv, TypeInv
<1>1. PICK m \in Modes, k \in Keys, size \in {KeySize, KeySize + 1} :
          files' = Append(files, [mode |-> m, content |-> Whole(k, size)])
  BY DEF Replace
<1> DEFINE new == [mode |-> m, content |-> Whole(k, size)]
<1>2. size \in Nat
  BY SizeAssumption
<1>3. Whole(k, size) \in Seq(Keys) /\ Uniform(Whole(k, size))
  BY <1>2, WholeFacts
<1>4. new \in File /\ new.content = Whole(k, size)
  BY <1>3 DEF File
<1> HIDE DEF new
<1>5. /\ files' \in Seq(File) /\ Len(files') = Len(files) + 1 /\ path' = Len(files) + 1
      /\ files'[Len(files) + 1] = new
      /\ \A f \in 1 .. Len(files) : files'[f] = files[f]
  BY <1>1, <1>4 DEF Replace, new
<1>6. TypeInv'
  BY <1>5 DEF Replace, Operator, loadVars
<1>7. FilesOK'
  <2> SUFFICES ASSUME NEW f \in 1 .. Len(files) + 1 PROVE Uniform(files'[f].content)
    BY <1>5 DEF FilesOK
  <2>1. CASE f = Len(files) + 1
    BY <2>1, <1>3, <1>4, <1>5
  <2>2. CASE f \in 1 .. Len(files)
    BY <2>2, <1>5 DEF FilesOK
  <2> QED
    BY <2>1, <2>2
<1>8. ASSUME NEW s \in Services PROVE LoadOK(s)' /\ CalmOK(s)'
  <2>1. LoadOK(s)'
    BY <1>5 DEF Replace, Operator, loadVars, LoadOK
  <2>2. CalmOK(s)'
    BY DEF Replace, Operator, CalmOK
  <2> QED
    BY <2>1, <2>2
<1> QED
  BY <1>6, <1>7, <1>8

(* One that is truncated spoils the reads of those who have it open.       *)
LEMMA TruncateOK == IInv /\ Truncate => IInv'
<1> SUFFICES ASSUME IInv, Truncate PROVE IInv'
  OBVIOUS
<1> USE DEF IInv, TypeInv
<1>1. path \in 1 .. Len(files) /\ files[path] \in File
  BY DEF Truncate
<1>2. /\ files' \in Seq(File) /\ Len(files') = Len(files)
      /\ files'[path].content = << >>
      /\ \A f \in 1 .. Len(files) : f # path => files'[f] = files[f]
  <2> DEFINE new == [files[path] EXCEPT !.content = << >>]
  <2>0. << >> \in Seq(Keys)
    OBVIOUS
  <2>1. new \in File /\ new.content = << >>
    BY <1>1, <2>0 DEF File
  <2>2. files' = [files EXCEPT ![path] = new]
    BY <1>1 DEF Truncate
  <2> HIDE DEF new
  <2> QED
    BY <1>1, <2>1, <2>2, FileChanged
<1>3. TypeInv'
  BY <1>2 DEF Truncate, Operator, loadVars
<1>4. FilesOK'
  BY <1>1, <1>2 DEF FilesOK, Uniform
<1>5. ASSUME NEW s \in Services PROVE LoadOK(s)' /\ CalmOK(s)'
  <2>1. spoilt'[s] = (spoilt[s] \/ fd[s] = path)
    BY DEF Truncate
  <2>2. LoadOK(s)'
    <3>1. /\ pc' = pc /\ fd' = fd /\ got' = got /\ key' = key
          /\ spoilt'[s] \in BOOLEAN /\ (~spoilt'[s] => ~spoilt[s] /\ fd[s] # path)
      BY <2>1 DEF Truncate, Operator, loadVars
    <3>2. pc[s] = "reading" /\ ~spoilt'[s] => Begins(got[s], files'[fd[s]].content)
      <4>1. pc[s] = "reading" => fd[s] \in 1 .. Len(files)
        BY DEF LoadOK
      <4> QED
        BY <1>2, <3>1, <4>1 DEF LoadOK
    <3> QED
      BY <3>1, <3>2 DEF LoadOK
  <2>3. CalmOK(s)'
    BY DEF Truncate, Operator, CalmOK
  <2> QED
    BY <2>2, <2>3
<1> QED
  BY <1>3, <1>4, <1>5

(* One that is written on still begins with what was read of it.           *)
LEMMA WritePartOK == IInv /\ WritePart => IInv'
<1> SUFFICES ASSUME IInv, WritePart PROVE IInv'
  OBVIOUS
<1> USE DEF IInv, TypeInv
<1> DEFINE content == files[path].content
<1>1. path \in 1 .. Len(files) /\ files[path] \in File /\ content \in Seq(Keys)
  <2>1. path \in 1 .. Len(files)
    BY DEF WritePart
  <2>2. files[path] \in File
    BY <2>1
  <2> QED
    BY <2>1, <2>2 DEF File
<1>2. PICK k \in Keys :
          /\ content # << >> => k = content[1]
          /\ files' = [files EXCEPT ![path].content = Append(content, k)]
  BY DEF WritePart
<1>3. Uniform(content)
  BY <1>1 DEF FilesOK
<1>4. /\ Append(content, k) \in Seq(Keys) /\ Uniform(Append(content, k))
      /\ \A g \in Seq(Keys) : Begins(g, content) => Begins(g, Append(content, k))
  BY <1>1, <1>2, <1>3, UniformAppend
<1>5. /\ files' \in Seq(File) /\ Len(files') = Len(files)
      /\ files'[path].content = Append(content, k)
      /\ \A f \in 1 .. Len(files) : f # path => files'[f] = files[f]
  <2> DEFINE new == [files[path] EXCEPT !.content = Append(content, k)]
  <2>1. new \in File /\ new.content = Append(content, k)
    BY <1>1, <1>4 DEF File
  <2>2. files' = [files EXCEPT ![path] = new]
    BY <1>1, <1>2
  <2> HIDE DEF new, content
  <2> QED
    BY <1>1, <2>1, <2>2, FileChanged
<1> HIDE DEF content
<1>6. TypeInv'
  BY <1>5 DEF WritePart, loadVars
<1>7. FilesOK'
  BY <1>1, <1>4, <1>5 DEF FilesOK
<1>8. ASSUME NEW s \in Services PROVE LoadOK(s)' /\ CalmOK(s)'
  <2>1. pc[s] = "reading" /\ ~spoilt[s] => Begins(got[s], files'[fd[s]].content)
    <3> SUFFICES ASSUME pc[s] = "reading", ~spoilt[s] PROVE Begins(got[s], files'[fd[s]].content)
      OBVIOUS
    <3>1. fd[s] \in 1 .. Len(files) /\ got[s] \in Seq(Keys) /\ Begins(got[s], files[fd[s]].content)
      BY DEF LoadOK
    <3>2. CASE fd[s] = path
      BY <3>1, <3>2, <1>4, <1>5 DEF content
    <3>3. CASE fd[s] # path
      BY <3>1, <3>3, <1>5
    <3> QED
      BY <3>2, <3>3
  <2>2. LoadOK(s)'
    BY <2>1 DEF WritePart, loadVars, LoadOK
  <2>3. CalmOK(s)'
    BY DEF WritePart, CalmOK
  <2> QED
    BY <2>2, <2>3
<1> QED
  BY <1>6, <1>7, <1>8

(* A new mode changes no content.                                          *)
LEMMA ChmodOK == IInv /\ Chmod => IInv'
<1> SUFFICES ASSUME IInv, Chmod PROVE IInv'
  OBVIOUS
<1> USE DEF IInv, TypeInv
<1>1. path \in 1 .. Len(files) /\ files[path] \in File
  BY DEF Chmod
<1>2. PICK m \in Modes : files' = [files EXCEPT ![path].mode = m]
  BY DEF Chmod
<1>3. /\ files' \in Seq(File) /\ Len(files') = Len(files)
      /\ \A f \in 1 .. Len(files) : files'[f].content = files[f].content
  <2> DEFINE new == [files[path] EXCEPT !.mode = m]
  <2>1. new \in File /\ new.content = files[path].content
    BY <1>1 DEF File
  <2>2. files' = [files EXCEPT ![path] = new]
    BY <1>1, <1>2
  <2> HIDE DEF new
  <2> QED
    BY <1>1, <2>1, <2>2, FileChanged
<1>4. TypeInv'
  BY <1>3 DEF Chmod, Operator, loadVars
<1>5. FilesOK'
  BY <1>3 DEF FilesOK
<1>6. ASSUME NEW s \in Services PROVE LoadOK(s)' /\ CalmOK(s)'
  <2>1. LoadOK(s)'
    BY <1>3 DEF Chmod, Operator, loadVars, LoadOK
  <2>2. CalmOK(s)'
    BY DEF Chmod, Operator, CalmOK
  <2> QED
    BY <2>1, <2>2
<1> QED
  BY <1>4, <1>5, <1>6

(* A file that is removed from the path stays for those who have it open.  *)
LEMMA RemoveOK == IInv /\ Remove => IInv'
<1> SUFFICES ASSUME IInv, Remove PROVE IInv'
  OBVIOUS
<1> USE DEF IInv, TypeInv
<1>1. TypeInv' /\ FilesOK'
  BY DEF Remove, Operator, loadVars, FilesOK
<1>2. ASSUME NEW s \in Services PROVE LoadOK(s)' /\ CalmOK(s)'
  BY DEF Remove, Operator, loadVars, LoadOK, CalmOK
<1> QED
  BY <1>1, <1>2

(* What s does is no matter to the others.                                 *)
LEMMA Others ==
    ASSUME IInv, NEW s \in Services, NEW t \in Services, t # s,
           UNCHANGED fileVars,
           pc'[t] = pc[t], fd'[t] = fd[t], got'[t] = got[t], key'[t] = key[t],
           calm'[t] = calm[t], spoilt'[t] = spoilt[t]
    PROVE  LoadOK(t)' /\ CalmOK(t)'
<1>1. LoadOK(t) /\ CalmOK(t)
  BY DEF IInv
<1> QED
  BY <1>1 DEF LoadOK, CalmOK, fileVars

(* A load that fails leaves nothing.                                       *)
LEMMA FailsOK ==
    ASSUME IInv, NEW s \in Services, pc[s] \in {"checked", "reading"}, Fails(s)
    PROVE  IInv'
<1> USE DEF IInv, TypeInv
<1>1. TypeInv' /\ FilesOK'
  BY DEF Fails, fileVars, history, FilesOK
<1>2. LoadOK(s)' /\ CalmOK(s)'
  BY DEF Fails, fileVars, history, LoadOK, CalmOK
<1>3. ASSUME NEW t \in Services, t # s PROVE LoadOK(t)' /\ CalmOK(t)'
  BY <1>3, Others DEF Fails, fileVars, history
<1> QED
  BY <1>1, <1>2, <1>3

(* Stat: from here on calm and spoilt tell what happens to the file.       *)
LEMMA StatOK == ASSUME NEW s \in Services, IInv, Stat(s) PROVE IInv'
<1> USE DEF IInv, TypeInv
<1>1. TypeInv' /\ FilesOK'
  BY DEF Stat, fileVars, FilesOK
<1>2. LoadOK(s)' /\ CalmOK(s)'
  BY DEF Stat, fileVars, LoadOK, CalmOK
<1>3. ASSUME NEW t \in Services, t # s PROVE LoadOK(t)' /\ CalmOK(t)'
  BY <1>3, Others DEF Stat
<1> QED
  BY <1>1, <1>2, <1>3

(* Open: nothing has been read, and the file is the one at the path.       *)
LEMMA OpenOK == ASSUME NEW s \in Services, IInv, Open(s) PROVE IInv'
<1> USE DEF IInv, TypeInv
<1>1. CASE path = 0 /\ Fails(s)
  BY <1>1, FailsOK DEF Open
<1>2. CASE /\ path # 0
           /\ pc' = [pc EXCEPT ![s] = "reading"]
           /\ fd' = [fd EXCEPT ![s] = path]
           /\ UNCHANGED << got, key, fileVars, history, sealed >>
  <2>1. TypeInv' /\ FilesOK'
    BY <1>2 DEF fileVars, history, FilesOK
  <2>2. got[s] = << >> /\ files[path] \in File /\ key[s] = None
    BY <1>2 DEF Open, LoadOK
  <2>3. Begins(<< >>, files[path].content)
    BY <2>2, BeginsFacts DEF File
  <2>4. LoadOK(s)' /\ CalmOK(s)'
    BY <1>2, <2>2, <2>3 DEF Open, fileVars, history, LoadOK, CalmOK
  <2>5. ASSUME NEW t \in Services, t # s PROVE LoadOK(t)' /\ CalmOK(t)'
    BY <1>2, <2>5, Others DEF history
  <2> QED
    BY <2>1, <2>4, <2>5
<1> QED
  BY <1>1, <1>2 DEF Open

(* What a reading service has open, by type.                               *)
LEMMA ReadingFacts ==
    ASSUME NEW s \in Services, IInv, pc[s] = "reading"
    PROVE  /\ fd[s] \in 1 .. Len(files) /\ files[fd[s]] \in File
           /\ files[fd[s]].content \in Seq(Keys) /\ got[s] \in Seq(Keys)
           /\ Unread(s) \in Seq(Keys) /\ Uniform(files[fd[s]].content)
           /\ key[s] = None
           /\ ~spoilt[s] => Begins(got[s], files[fd[s]].content)
<1>1. fd[s] \in 1 .. Len(files) /\ got[s] \in Seq(Keys) /\ key[s] = None
      /\ (~spoilt[s] => Begins(got[s], files[fd[s]].content))
  BY DEF IInv, TypeInv, LoadOK
<1>2. files[fd[s]] \in File /\ files[fd[s]].content \in Seq(Keys)
  <2>1. files[fd[s]] \in File
    BY <1>1 DEF IInv, TypeInv
  <2> QED
    BY <2>1 DEF File
<1>3. Unread(s) \in Seq(Keys)
  BY <1>1, <1>2 DEF Unread
<1> QED
  BY <1>1, <1>2, <1>3 DEF IInv, FilesOK

(* Read: what is read follows on what was read, unless that is gone.       *)
LEMMA ReadOK == ASSUME NEW s \in Services, IInv, Read(s) PROVE IInv'
<1> USE DEF IInv, TypeInv
<1>1. pc[s] = "reading"
  BY DEF Read
<1> DEFINE content == files[fd[s]].content
<1>2. /\ fd[s] \in 1 .. Len(files) /\ content \in Seq(Keys) /\ got[s] \in Seq(Keys)
      /\ Unread(s) \in Seq(Keys) /\ key[s] = None
      /\ ~spoilt[s] => Begins(got[s], content)
  BY <1>1, ReadingFacts
<1>3. got'[s] = got[s] \o Unread(s) /\ got'[s] \in Seq(Keys)
  BY <1>2 DEF Read
<1>4. ~spoilt[s] => got'[s] = content
  BY <1>2, <1>3, ReadOn DEF Unread
<1>5. ~spoilt[s] => Begins(got'[s], content)
  BY <1>2, <1>4, BeginsFacts
<1>6. TypeInv' /\ FilesOK'
  BY <1>2, <1>3 DEF Read, fileVars, history, FilesOK
<1>7. LoadOK(s)' /\ CalmOK(s)'
  BY <1>1, <1>2, <1>5 DEF Read, fileVars, history, LoadOK, CalmOK
<1>8. ASSUME NEW t \in Services, t # s PROVE LoadOK(t)' /\ CalmOK(t)'
  BY <1>8, Others DEF Read, history
<1> QED
  BY <1>6, <1>7, <1>8

(* What the end of the file says: unless it was truncated meanwhile, what  *)
(* was read is what the file holds.                                        *)
LEMMA AtEnd ==
    ASSUME NEW s \in Services, IInv, pc[s] = "reading", Unread(s) = << >>, ~spoilt[s]
    PROVE  got[s] = files[fd[s]].content /\ Uniform(got[s])
<1>1. got[s] = files[fd[s]].content
  BY ReadingFacts, ReadToEnd DEF Unread
<1> QED
  BY <1>1, ReadingFacts

(* Loaded: only a content of the right size is taken.                      *)
LEMMA LoadedOK == ASSUME NEW s \in Services, IInv, Loaded(s) PROVE IInv'
<1> USE DEF IInv, TypeInv
<1>1. CASE Fails(s)
  BY <1>1, FailsOK DEF Loaded
<1>2. CASE /\ RightSize(got[s])
           /\ pc' = [pc EXCEPT ![s] = IF FunctionOf[s] = "ReadShared" THEN "raw" ELSE "idle"]
           /\ key' = [key EXCEPT ![s] = IF FunctionOf[s] = "ReadShared" THEN None ELSE got[s]]
           /\ fd' = [fd EXCEPT ![s] = 0]
           /\ UNCHANGED << got, fileVars, history, sealed >>
  <2>1. pc[s] = "reading" /\ Unread(s) = << >>
    BY DEF Loaded
  <2>2. got[s] \in Seq(Keys) /\ Len(got[s]) = KeySize /\ got[s] # None
    BY <1>2, <2>1, ReadingFacts, AbsentAssumption DEF RightSize
  <2>3. ~spoilt[s] => got[s] = files[fd[s]].content /\ Uniform(got[s])
    BY <2>1, AtEnd
  <2>4. TypeInv' /\ FilesOK'
    BY <1>2, <2>2 DEF fileVars, history, FilesOK
  <2>5. ASSUME FunctionOf[s] = "ReadShared" PROVE LoadOK(s)' /\ CalmOK(s)'
    <3>1. pc'[s] = "raw" /\ key'[s] = None /\ fd'[s] = 0
      BY <1>2, <2>5
    <3>2. LoadOK(s)'
      BY <1>2, <2>2, <2>3, <3>1 DEF history, LoadOK
    <3>3. CalmOK(s)'
      BY <1>2, <2>1, <2>3, <3>1 DEF fileVars, history, CalmOK
    <3> QED
      BY <3>2, <3>3
  <2>6. ASSUME FunctionOf[s] # "ReadShared" PROVE LoadOK(s)' /\ CalmOK(s)'
    <3>1. pc'[s] = "idle" /\ key'[s] = got[s] /\ fd'[s] = 0
      BY <1>2, <2>6
    <3>2. LoadOK(s)'
      BY <1>2, <2>2, <2>3, <3>1 DEF history, LoadOK
    <3>3. CalmOK(s)'
      BY <3>1 DEF CalmOK
    <3> QED
      BY <3>2, <3>3
  <2>7. ASSUME NEW t \in Services, t # s PROVE LoadOK(t)' /\ CalmOK(t)'
    BY <1>2, <2>7, Others DEF history
  <2> QED
    BY <2>4, <2>5, <2>6, <2>7
<1> QED
  BY <1>1, <1>2 DEF Loaded

(* New: the raw bytes that the caller was given.                           *)
LEMMA NewOK == ASSUME NEW s \in Services, IInv, New(s) PROVE IInv'
<1> USE DEF IInv, TypeInv
<1>1. TypeInv' /\ FilesOK'
  BY DEF New, fileVars, history, FilesOK
<1>2. got[s] \in Seq(Keys) /\ got[s] # None
  BY AbsentAssumption
<1>3. LoadOK(s)' /\ CalmOK(s)'
  BY <1>2 DEF New, fileVars, history, LoadOK, CalmOK
<1>4. ASSUME NEW t \in Services, t # s PROVE LoadOK(t)' /\ CalmOK(t)'
  BY <1>4, Others DEF New, history
<1> QED
  BY <1>1, <1>3, <1>4

(* Restart: the service begins anew.                                       *)
LEMMA RestartOK == ASSUME NEW s \in Services, IInv, Restart(s) PROVE IInv'
<1> USE DEF IInv, TypeInv
<1>1. TypeInv' /\ FilesOK'
  BY DEF Restart, fileVars, history, FilesOK
<1>2. LoadOK(s)' /\ CalmOK(s)'
  BY DEF Restart, fileVars, history, LoadOK, CalmOK
<1>3. ASSUME NEW t \in Services, t # s PROVE LoadOK(t)' /\ CalmOK(t)'
  BY <1>3, Others DEF Restart, history
<1> QED
  BY <1>1, <1>2, <1>3

(* Sealing a secret, or no step at all, is no matter to a load.            *)
LEMMA NoLoadOK ==
    ASSUME IInv, UNCHANGED << loadVars, fileVars, history >> PROVE IInv'
<1>1. TypeInv' /\ FilesOK'
  BY DEF IInv, TypeInv, FilesOK, loadVars, fileVars, history
<1>2. ASSUME NEW s \in Services PROVE LoadOK(s)' /\ CalmOK(s)'
  <2>1. LoadOK(s) /\ CalmOK(s)
    BY DEF IInv
  <2> QED
    BY <2>1 DEF LoadOK, CalmOK, loadVars, fileVars, history
<1> QED
  BY <1>1, <1>2 DEF IInv

(* Every step keeps the invariant.                                         *)
LEMMA StepOK == IInv /\ [Next]_vars => IInv'
<1> SUFFICES ASSUME IInv, [Next]_vars PROVE IInv'
  OBVIOUS
<1>1. CASE Replace \/ Truncate \/ WritePart \/ Chmod \/ Remove
  BY <1>1, ReplaceOK, TruncateOK, WritePartOK, ChmodOK, RemoveOK
<1>2. ASSUME NEW s \in Services, ServiceStep(s) PROVE IInv'
  <2>1. CASE EncryptBase64(s)
    BY <2>1, NoLoadOK DEF EncryptBase64
  <2> QED
    BY <1>2, <2>1, StatOK, OpenOK, ReadOK, LoadedOK, NewOK, RestartOK DEF ServiceStep
<1>3. CASE UNCHANGED vars
  BY <1>3, NoLoadOK DEF vars
<1> QED
  BY <1>1, <1>2, <1>3 DEF Next

(* The invariant holds of every state the system reaches.                  *)
THEOREM Invariance == Spec => []IInv
BY InitOK, StepOK, PTL DEF Spec

(* The proved form of KeyIsWhole: no service works with part of a key, or  *)
(* with parts of two, however the operator's steps and the reads mix.      *)
THEOREM KeyWhole == Spec => []KeyIsWhole
<1>1. ASSUME IInv PROVE KeyIsWhole
  <2> SUFFICES ASSUME NEW s \in Services, key[s] # None, ~spoilt[s]
               PROVE  \E k \in Keys : key[s] = Whole(k, KeySize)
    BY DEF KeyIsWhole
  <2>1. key[s] \in Seq(Keys) /\ Uniform(key[s]) /\ Len(key[s]) = KeySize
    BY <1>1 DEF IInv, TypeInv, LoadOK
  <2> QED
    BY <2>1, UniformIsWhole
<1>2. Spec => []IInv
  BY Invariance
<1> QED
  BY <1>1, <1>2, PTL

(* What one step of a service makes of its key.                            *)
LEMMA KeyStep ==
    ASSUME IInv, [Next]_vars, NEW s \in Services,
           key'[s] # None, key'[s] # key[s], calm[s]
    PROVE  /\ path # 0 /\ key'[s] = files[path].content
           /\ Owned(FunctionOf[s], files[path].mode)
<1> USE DEF IInv, TypeInv
<1>1. Loaded(s) \/ New(s)
  <2>1. CASE Replace \/ Truncate \/ WritePart \/ Chmod \/ Remove \/ UNCHANGED vars
    BY <2>1 DEF Replace, Truncate, WritePart, Chmod, Remove, Operator, loadVars, vars
  <2>2. ASSUME NEW t \in Services, ServiceStep(t) PROVE t = s /\ (Loaded(t) \/ New(t))
    BY <2>2 DEF ServiceStep, Stat, Open, Fails, Read, Loaded, New, Restart, EncryptBase64, loadVars
  <2> QED
    BY <2>1, <2>2 DEF Next
<1>2. pc[s] \in {"reading", "raw"}
  BY <1>1 DEF Loaded, New
<1>3. ~spoilt[s] /\ path # 0 /\ files[path].mode \cap DenyMask(FunctionOf[s]) = {}
  BY <1>2 DEF CalmOK
<1>4. Owned(FunctionOf[s], files[path].mode)
  BY <1>3 DEF Owned, DenyMask
<1>5. key'[s] = got[s] /\ got[s] = files[path].content
  <2>1. CASE New(s)
    BY <2>1 DEF New, CalmOK
  <2>2. CASE Loaded(s)
    <3>1. key'[s] = got[s]
      BY <2>2 DEF Loaded, Fails
    <3>2. got[s] = files[fd[s]].content
      BY <2>2, <1>3, AtEnd DEF Loaded
    <3>3. fd[s] = path
      BY <2>2 DEF Loaded, CalmOK
    <3> QED
      BY <3>1, <3>2, <3>3
  <2> QED
    BY <1>1, <2>1, <2>2
<1> QED
  BY <1>3, <1>4, <1>5

(* The proved form of LoadIsChecked: Stat and ReadFile are two looks at    *)
(* the path, and what they promise together holds if nobody came between.  *)
THEOREM LoadChecked == Spec => LoadIsChecked
<1>1. IInv /\ [Next]_vars =>
        [\A s \in Services :
            key'[s] # None /\ key'[s] # key[s] /\ calm[s] =>
                /\ path # 0 /\ key'[s] = files[path].content
                /\ Owned(FunctionOf[s], files[path].mode)]_vars
  BY KeyStep
<1>2. Spec => []IInv
  BY Invariance
<1> QED
  BY <1>1, <1>2, PTL DEF Spec, LoadIsChecked
----------------------------------------------------------------------------
(* What a text is made of.                                                 *)
LEMMA SecretFacts ==
    ASSUME NEW x, NEW n \in Nat, SecretOK(x, n)
    PROVE  /\ x.text[1] = n /\ x.text[2] = BoxOf(x, n) /\ BoxOf(x, n) \in Box
           /\ BoxOf(x, n).key = x.key /\ BoxOf(x, n).nonce = n /\ BoxOf(x, n).plain = x.plain
           /\ x.text = << x.text[1], x.text[2] >>
<1>1. x.text[1] = n /\ x.text[2] = BoxOf(x, n) /\ x.text = << x.text[1], x.text[2] >>
  BY DEF SecretOK
<1>2. x.key \in Seq(Keys) /\ x.plain \in Plaintexts
  BY DEF SecretOK
<1> QED
  BY <1>1, <1>2 DEF Box, BoxOf

(* A secret sealed next gets a nonce that none has.                        *)
LEMMA SealedStep == IInv /\ SealedOK /\ [Next]_vars => SealedOK'
<1> SUFFICES ASSUME IInv, SealedOK, [Next]_vars PROVE SealedOK'
  OBVIOUS
<1>1. CASE sealed' = sealed
  BY <1>1 DEF SealedOK
<1>2. ASSUME NEW s \in Services, EncryptBase64(s) PROVE SealedOK'
  <2> DEFINE nonce == Cardinality(sealed) + 1
  <2>1. PICK plain \in Plaintexts :
           sealed' = sealed \cup
             { [key |-> key[s], plain |-> plain,
                text |-> << nonce, [key |-> key[s], nonce |-> nonce, plain |-> plain] >>] }
    BY <1>2 DEF EncryptBase64
  <2> DEFINE new == [key |-> key[s], plain |-> plain,
                     text |-> << nonce, [key |-> key[s], nonce |-> nonce, plain |-> plain] >>]
  <2>2. key[s] \in Seq(Keys)
    BY <1>2 DEF EncryptBase64, IInv, TypeInv
  <2>3. Cardinality(sealed) \in Nat
    BY FS_CardinalityType DEF SealedOK
  <2>4. SecretOK(new, nonce)
    BY <2>2 DEF SecretOK, BoxOf
  <2>5. sealed' = sealed \cup {new}
    BY <2>1
  <2> HIDE DEF new
  <2>6. \A x \in sealed : x.text[1] \in 1 .. Cardinality(sealed)
    BY <2>3, SecretFacts DEF SealedOK
  <2>7. new.text[1] = nonce /\ nonce \notin 1 .. Cardinality(sealed) /\ new \notin sealed
    BY <2>3, <2>4, <2>6, SecretFacts
  <2>8. IsFiniteSet(sealed') /\ Cardinality(sealed') = nonce
    BY <2>5, <2>7, FS_AddElement DEF SealedOK
  <2>9. ASSUME NEW x \in sealed' PROVE \E n \in 1 .. Cardinality(sealed') : SecretOK(x, n)
    <3>1. CASE x \in sealed
      <4>1. PICK n \in 1 .. Cardinality(sealed) : SecretOK(x, n)
        BY <3>1 DEF SealedOK
      <4>2. n \in 1 .. Cardinality(sealed')
        BY <2>3, <2>8
      <4> QED
        BY <4>1, <4>2
    <3>2. CASE x = new
      <4>1. nonce \in 1 .. Cardinality(sealed')
        BY <2>3, <2>8
      <4> QED
        BY <3>2, <4>1, <2>4
    <3> QED
      BY <2>5, <3>1, <3>2
  <2>10. \A x, y \in sealed' : x.text[1] = y.text[1] => x = y
    BY <2>5, <2>6, <2>7 DEF SealedOK
  <2> QED
    BY <2>8, <2>9, <2>10 DEF SealedOK
<1> QED
  BY <1>1, <1>2 DEF Next, Replace, Truncate, WritePart, Chmod, Remove, Operator, ServiceStep,
     Stat, Open, Fails, Read, Loaded, New, Restart, vars

(* A part of length one.                                                   *)
LEMMA CutOne ==
    ASSUME NEW S, NEW t \in Seq(S), NEW i \in 1 .. Len(t)
    PROVE  SubSeq(t, i, i) = << t[i] >>
<1> DEFINE u == SubSeq(t, i, i)
<1> DEFINE w == << t[i] >>
<1>1. u \in Seq(S) /\ Len(u) = 1 /\ u[1] = t[i]
  OBVIOUS
<1>2. w \in Seq(S) /\ Len(w) = 1 /\ w[1] = t[i]
  OBVIOUS
<1> HIDE DEF u, w
<1>3. u = w
  BY <1>1, <1>2, SeqEqual
<1> QED
  BY <1>3 DEF u, w

(* A sequence of one or two, cut after the first.                          *)
LEMMA CutFacts ==
    ASSUME NEW S, NEW a \in S, NEW b \in S
    PROVE  /\ << a, b >> \in Seq(S) /\ << a >> \in Seq(S) /\ << b >> \in Seq(S)
           /\ Len(<< a, b >>) = 2 /\ Len(<< a >>) = 1 /\ Len(<< b >>) = 1
           /\ SubSeq(<< a, b >>, 1, 1) = << a >>
           /\ SubSeq(<< a, b >>, 2, 2) = << b >>
           /\ SubSeq(<< a >>, 1, 1) = << a >>
           /\ SubSeq(<< a >>, 2, 1) = << >>
<1>1. /\ << a, b >> \in Seq(S) /\ << a >> \in Seq(S) /\ << b >> \in Seq(S)
      /\ Len(<< a, b >>) = 2 /\ Len(<< a >>) = 1 /\ Len(<< b >>) = 1
  OBVIOUS
<1>2. SubSeq(<< a, b >>, 1, 1) = << a >> /\ SubSeq(<< a, b >>, 2, 2) = << b >>
  <2> DEFINE t == << a, b >>
  <2>1. t \in Seq(S) /\ 1 \in 1 .. Len(t) /\ 2 \in 1 .. Len(t) /\ t[1] = a /\ t[2] = b
    BY <1>1
  <2> HIDE DEF t
  <2>2. SubSeq(t, 1, 1) = << a >> /\ SubSeq(t, 2, 2) = << b >>
    BY <2>1, CutOne
  <2> QED
    BY <2>2 DEF t
<1>4. SubSeq(<< a >>, 1, 1) = << a >>
  <2> DEFINE t == << a >>
  <2>1. t \in Seq(S) /\ 1 \in 1 .. Len(t) /\ t[1] = a
    BY <1>1
  <2> HIDE DEF t
  <2>2. SubSeq(t, 1, 1) = << a >>
    BY <2>1, CutOne
  <2> QED
    BY <2>2 DEF t
<1>5. SubSeq(<< a >>, 2, 1) = << >>
  BY <1>1
<1> QED
  BY <1>1, <1>2, <1>4, <1>5

(* What DecryptBase64 answers to a box after some nonce, to a nonce alone, *)
(* and to what is no text.                                                 *)
LEMMA DecryptFacts ==
    ASSUME NEW raw, NEW n \in Nat, NEW b \in Box
    PROVE  /\ DecryptBase64(raw, << n, b >>) =
                IF b.key = raw /\ b.nonce = n THEN b.plain ELSE "error"
           /\ DecryptBase64(raw, << n >>) = "error"
           /\ DecryptBase64(raw, << >>) = "error"
           /\ DecryptBase64(raw, NotBase64) = "error"
<1>1. /\ << n, b >> # NotBase64 /\ << n >> # NotBase64
      /\ Len(<< n, b >>) = 2 /\ Len(<< n >>) = 1 /\ Len(<< b >>) = 1
      /\ SubSeq(<< n, b >>, 1, 1) = << n >>
      /\ SubSeq(<< n, b >>, 2, 2) = << b >>
      /\ SubSeq(<< n >>, 1, 1) = << n >>
      /\ SubSeq(<< n >>, 2, 1) = << >>
  <2>1. n \in Nat \cup Box /\ b \in Nat \cup Box
    OBVIOUS
  <2>2. NotBase64 \notin Seq(Nat \cup Box)
    BY AbsentAssumption DEF Box
  <2>3. /\ << n, b >> \in Seq(Nat \cup Box) /\ Len(<< n, b >>) = 2
        /\ SubSeq(<< n, b >>, 1, 1) = << n >> /\ SubSeq(<< n, b >>, 2, 2) = << b >>
    BY <2>1, CutFacts
  <2>4. /\ << n >> \in Seq(Nat \cup Box) /\ Len(<< n >>) = 1 /\ Len(<< b >>) = 1
        /\ SubSeq(<< n >>, 1, 1) = << n >> /\ SubSeq(<< n >>, 2, 1) = << >>
    BY <2>1, CutFacts
  <2> QED
    BY <2>2, <2>3, <2>4, Zenon
<1>2. DecryptBase64(raw, << n, b >>) = AEADOpen(raw, << n >>, << b >>)
  <2> DEFINE t == << n, b >>
  <2>1. t # NotBase64 /\ Len(t) = 2 /\ SubSeq(t, 1, 1) = << n >> /\ SubSeq(t, 2, 2) = << b >>
    BY <1>1
  <2> HIDE DEF t
  <2>2. ~(t = NotBase64 \/ Len(t) < NonceSize) /\ NonceSize = 1 /\ NonceSize + 1 = 2
    BY <2>1 DEF NonceSize
  <2>3. DecryptBase64(raw, t) = AEADOpen(raw, << n >>, << b >>)
    BY <2>1, <2>2 DEF DecryptBase64
  <2> QED
    BY <2>3 DEF t
<1>3. DecryptBase64(raw, << n >>) = AEADOpen(raw, << n >>, << >>)
  <2> DEFINE t == << n >>
  <2>1. t # NotBase64 /\ Len(t) = 1 /\ SubSeq(t, 1, 1) = << n >> /\ SubSeq(t, 2, 1) = << >>
    BY <1>1
  <2> HIDE DEF t
  <2>2. ~(t = NotBase64 \/ Len(t) < NonceSize) /\ NonceSize = 1 /\ NonceSize + 1 = 2
    BY <2>1 DEF NonceSize
  <2>3. DecryptBase64(raw, t) = AEADOpen(raw, << n >>, << >>)
    BY <2>1, <2>2 DEF DecryptBase64
  <2> QED
    BY <2>3 DEF t
<1>4. DecryptBase64(raw, << >>) = "error" /\ DecryptBase64(raw, NotBase64) = "error"
  BY DEF DecryptBase64, NonceSize
<1>5. AEADOpen(raw, << n >>, << b >>) =
        IF b.key = raw /\ b.nonce = n THEN b.plain ELSE "error"
  BY <1>1 DEF AEADOpen
<1>6. AEADOpen(raw, << n >>, << >>) = "error"
  BY DEF AEADOpen
<1> QED
  BY <1>2, <1>3, <1>4, <1>5, <1>6

(* The proved form of OpensWhatWasSealed: whatever the store gives back, a *)
(* service opens what was sealed with its key, and nothing else.           *)
THEOREM Opens == Spec => []OpensWhatWasSealed
<1>1. Init => SealedOK
  BY FS_EmptySet DEF Init, SealedOK
<1>2. ASSUME IInv, SealedOK PROVE OpensWhatWasSealed
  <2> SUFFICES ASSUME NEW s \in Services, key[s] # None, NEW text \in Stored
               PROVE  LET from == { x \in sealed : x.text = text /\ x.key = key[s] }
                      IN  IF from = {} THEN DecryptBase64(key[s], text) = "error"
                          ELSE \A x \in from : DecryptBase64(key[s], text) = x.plain
    BY DEF OpensWhatWasSealed
  <2> DEFINE from == { x \in sealed : x.text = text /\ x.key = key[s] }
  <2>1. ASSUME NEW x \in sealed PROVE
          /\ x.text[1] \in Nat /\ x.text[2] \in Box /\ x.text = << x.text[1], x.text[2] >>
          /\ x.text[2].key = x.key /\ x.text[2].nonce = x.text[1] /\ x.text[2].plain = x.plain
    <3>1. PICK n \in 1 .. Cardinality(sealed) : SecretOK(x, n)
      BY <1>2 DEF SealedOK
    <3>2. n \in Nat
      BY <1>2, FS_CardinalityType DEF SealedOK
    <3> QED
      BY <3>1, <3>2, SecretFacts
  <2>2. ASSUME NEW x \in sealed
        PROVE  /\ x.text # NotBase64 /\ x.text # << >>
               /\ \A n \in Nat : x.text # << n >>
    <3>1. x.text[1] \in Nat \cup Box /\ x.text[2] \in Nat \cup Box
      BY <2>1
    <3>2. << x.text[1], x.text[2] >> \in Seq(Nat \cup Box) /\ Len(<< x.text[1], x.text[2] >>) = 2
      BY <3>1, CutFacts
    <3>3. x.text \in Seq(Nat \cup Box) /\ Len(x.text) = 2
      BY <2>1, <3>2
    <3>4. NotBase64 \notin Seq(Nat \cup Box)
      BY AbsentAssumption DEF Box
    <3>5. ASSUME NEW n \in Nat PROVE Len(<< n >>) = 1
      OBVIOUS
    <3>6. Len(<< >>) = 0
      OBVIOUS
    <3> DEFINE t == x.text
    <3> HIDE DEF t
    <3>7. t # NotBase64 /\ t # << >> /\ \A n \in Nat : t # << n >>
      <4>1. t \in Seq(Nat \cup Box) /\ Len(t) = 2
        BY <3>3 DEF t
      <4>2. t # NotBase64
        BY <3>4, <4>1
      <4>3. t # << >>
        BY <3>6, <4>1
      <4>4. ASSUME NEW n \in Nat PROVE t # << n >>
        BY <3>5, <4>1
      <4> QED  BY <4>2, <4>3, <4>4
    <3> QED
      BY <3>7 DEF t
  <2>3. CASE text = NotBase64 \/ text = << >>
    <3>1. from = {}
      BY <2>2, <2>3
    <3>2. DecryptBase64(key[s], text) = "error"
      BY <2>3 DEF DecryptBase64, NonceSize
    <3> QED
      BY <3>1, <3>2
  <2>4. ASSUME NEW x \in sealed, text = << x.text[1] >>
        PROVE  from = {} /\ DecryptBase64(key[s], text) = "error"
    <3>1. from = {}
      BY <2>1, <2>2, <2>4
    <3>2. DecryptBase64(key[s], << x.text[1] >>) = "error"
      BY <2>1, DecryptFacts
    <3> QED
      BY <2>4, <3>1, <3>2
  <2>5. ASSUME NEW x \in sealed, NEW y \in sealed, text = << x.text[1], y.text[2] >>
        PROVE  IF from = {} THEN DecryptBase64(key[s], text) = "error"
               ELSE \A z \in from : DecryptBase64(key[s], text) = z.plain
    <3>1. /\ x.text[1] \in Nat /\ y.text[2] \in Box
          /\ y.text[2].key = y.key /\ y.text[2].nonce = y.text[1] /\ y.text[2].plain = y.plain
      BY <2>1
    <3>2. DecryptBase64(key[s], << x.text[1], y.text[2] >>) =
            IF y.text[2].key = key[s] /\ y.text[2].nonce = x.text[1]
            THEN y.text[2].plain ELSE "error"
      <4>1. \A n \in Nat, b \in Box :
               DecryptBase64(key[s], << n, b >>) =
                 IF b.key = key[s] /\ b.nonce = n THEN b.plain ELSE "error"
        BY DecryptFacts
      <4> QED
        BY <3>1, <4>1
    <3>3. DecryptBase64(key[s], text) =
            IF y.key = key[s] /\ y.text[1] = x.text[1] THEN y.plain ELSE "error"
      BY <2>5, <3>1, <3>2
    <3>4. ASSUME NEW z \in from PROVE z = y /\ y.key = key[s] /\ y.text[1] = x.text[1]
      <4>1. z \in sealed /\ z.text = << x.text[1], y.text[2] >> /\ z.key = key[s]
        BY <2>5, <3>4
      <4>2. z.text[1] = x.text[1] /\ z.text[2] = y.text[2]
        BY <4>1
      <4>3. z.text[2].key = z.key /\ z.text[2].nonce = z.text[1]
        BY <2>1, <4>1
      <4>4. z.key = y.key /\ z.text[1] = y.text[1]
        BY <3>1, <4>2, <4>3
      <4> QED
        BY <1>2, <4>1, <4>2, <4>4 DEF SealedOK
    <3>5. CASE y.key = key[s] /\ y.text[1] = x.text[1]
      <4>1. x = y
        BY <1>2, <3>5 DEF SealedOK
      <4>2. y \in from
        BY <2>1, <2>5, <3>5, <4>1
      <4> QED
        BY <3>3, <3>4, <3>5, <4>2
    <3>6. CASE ~(y.key = key[s] /\ y.text[1] = x.text[1])
      BY <3>3, <3>4, <3>6
    <3> QED
      BY <3>5, <3>6
  <2>6. \/ text = NotBase64 \/ text = << >>
        \/ \E x \in sealed : text = << x.text[1] >>
        \/ \E x \in sealed, y \in sealed : text = << x.text[1], y.text[2] >>
    BY DEF Stored
  <2> QED
    BY <2>3, <2>4, <2>5, <2>6
<1>3. Spec => []IInv
  BY Invariance
<1> QED
  BY <1>1, <1>2, <1>3, SealedStep, PTL DEF Spec
=============================================================================
