----------------------------- MODULE MasterKey -----------------------------
(***************************************************************************)
(* pkg/masterkey: services load the cluster's key from a file, by a Stat   *)
(* and a ReadFile that see the file at different moments, and seal and     *)
(* open secrets that they share.  The operator replaces, rewrites, chmods  *)
(* or removes the file meanwhile, and may stop in the midst of a write.    *)
(*                                                                         *)
(* A file's content is a sequence of parts, each named after the key it is *)
(* a part of; KeySize parts stand for the 32 bytes.  A mode is the set of  *)
(* the classes, "group" and "other", that have any access.                 *)
(***************************************************************************)
EXTENDS Integers, Sequences, FiniteSets

CONSTANTS
    Services, Keys, Plaintexts,
    KeySize,        \* MasterKeySize, in parts
    FunctionOf,      \* the loading function each service calls
    MaxChanges,     \* bound: what the operator does to the file
    MaxSealed,      \* bound: the secrets sealed
    NotBase64,      \* a text that cannot be decoded
    None

ASSUME SizeAssumption == KeySize \in Nat \ {0}
(* Absences are told apart from raw keys and from texts, which are         *)
(* sequences of bytes or boxes.                                            *)
ASSUME AbsentAssumption ==
    /\ None \notin Seq(Keys)
    /\ NotBase64 \notin Seq(Nat \cup [key : Seq(Keys), nonce : Nat, plain : Plaintexts])
ASSUME FunctionOfAssumption ==
    FunctionOf \in [Services -> {"Load", "LoadShared", "ReadShared"}]

VARIABLES
    pc,             \* where each service stands in its load
    files,          \* the files there have been: [mode, content]
    path,           \* the one at the key's path, 0 if there is none
    changes,        \* the operator's steps so far
    fd, got,        \* what a service has open, and has read
    key,            \* the raw key in a service's AEAD, or None
    calm,           \* history: nothing was done to the path since its Stat
    spoilt,         \* history: the open file was truncated under it
    sealed          \* the secrets sealed so far: [key, plain, text]

fileVars == << files, path, changes >>
loadVars == << pc, fd, got, key >>
history == << calm, spoilt >>
vars == << loadVars, fileVars, history, sealed >>

Modes == {{}, {"group"}, {"group", "other"}}
Whole(k, size) == [i \in 1 .. size |-> k]
----------------------------------------------------------------------------
(* The operator (external).                                                *)
Operator ==
    /\ changes < MaxChanges /\ changes' = changes + 1
    /\ calm' = [s \in Services |-> FALSE]
    /\ UNCHANGED << loadVars, sealed >>

(* A new file takes the path at once.  One part more is a trailing newline.*)
Replace ==
    /\ Operator
    /\ \E m \in Modes, k \in Keys, size \in {KeySize, KeySize + 1} :
          files' = Append(files, [mode |-> m, content |-> Whole(k, size)])
    /\ path' = Len(files')
    /\ UNCHANGED spoilt

Truncate ==
    /\ Operator /\ path # 0
    /\ files' = [files EXCEPT ![path].content = << >>]
    /\ spoilt' = [s \in Services |-> spoilt[s] \/ fd[s] = path]
    /\ UNCHANGED path

(* The next part of the key that is being written.                         *)
WritePart ==
    /\ path # 0 /\ Len(files[path].content) < KeySize
    /\ LET content == files[path].content
       IN  \E k \in Keys :
             /\ content # << >> => k = content[1]
             /\ files' = [files EXCEPT ![path].content = Append(content, k)]
    /\ calm' = [s \in Services |-> FALSE]
    /\ UNCHANGED << path, changes, loadVars, spoilt, sealed >>

Chmod ==
    /\ Operator /\ path # 0
    /\ \E m \in Modes : files' = [files EXCEPT ![path].mode = m]
    /\ UNCHANGED << path, spoilt >>

Remove ==
    /\ Operator /\ path # 0
    /\ path' = 0
    /\ UNCHANGED << files, spoilt >>
----------------------------------------------------------------------------
(* readKey.                                                                *)
GroupAllowed(function) == {"other"}     \* mutant: Load takes a file the group can read
DenyMask(function) == IF function = "Load" THEN {"group", "other"} ELSE {"other"}

Fails(s) ==
    /\ pc' = [pc EXCEPT ![s] = "idle"]
    /\ fd' = [fd EXCEPT ![s] = 0] /\ got' = [got EXCEPT ![s] = << >>]
    /\ UNCHANGED << key, fileVars, history, sealed >>

(* A Stat that fails, or shows too open a mode, is an error at once.       *)
Stat(s) ==
    /\ pc[s] = "idle" /\ key[s] = None
    /\ path # 0 /\ files[path].mode \cap DenyMask(FunctionOf[s]) = {}
    /\ pc' = [pc EXCEPT ![s] = "checked"]
    /\ calm' = [calm EXCEPT ![s] = TRUE] /\ spoilt' = [spoilt EXCEPT ![s] = FALSE]
    /\ UNCHANGED << fd, got, key, fileVars, sealed >>

(* ReadFile opens the path anew, and reads until a read returns nothing.   *)
Open(s) ==
    /\ pc[s] = "checked"
    /\ \/ path = 0 /\ Fails(s)
       \/ /\ path # 0
          /\ pc' = [pc EXCEPT ![s] = "reading"]
          /\ fd' = [fd EXCEPT ![s] = path]
          /\ UNCHANGED << got, key, fileVars, history, sealed >>

Unread(s) == SubSeq(files[fd[s]].content, Len(got[s]) + 1, Len(files[fd[s]].content))

Read(s) ==
    /\ pc[s] = "reading" /\ Unread(s) # << >>
    /\ got' = [got EXCEPT ![s] = @ \o Unread(s)]
    /\ UNCHANGED << pc, fd, key, fileVars, history, sealed >>

(* The end of the file.  The length is checked here, and once more by      *)
(* NewAEAD; a caller of ReadShared passes the raw bytes to New itself.     *)
AnySize(raw) == TRUE                    \* mutant: no length is wrong
RightSize(raw) == Len(raw) = KeySize

Loaded(s) ==
    /\ pc[s] = "reading" /\ Unread(s) = << >>
    /\ \/ ~RightSize(got[s]) /\ Fails(s)
       \/ /\ RightSize(got[s])
          /\ pc' = [pc EXCEPT ![s] = IF FunctionOf[s] = "ReadShared" THEN "raw" ELSE "idle"]
          /\ key' = [key EXCEPT ![s] = IF FunctionOf[s] = "ReadShared" THEN None ELSE got[s]]
          /\ fd' = [fd EXCEPT ![s] = 0]
          /\ UNCHANGED << got, fileVars, history, sealed >>

New(s) ==
    /\ pc[s] = "raw"
    /\ RightSize(got[s])
    /\ pc' = [pc EXCEPT ![s] = "idle"]
    /\ key' = [key EXCEPT ![s] = got[s]]
    /\ UNCHANGED << fd, got, fileVars, history, sealed >>

(* The service is restarted, and loads the key again.                      *)
Restart(s) ==
    /\ key[s] # None
    /\ key' = [key EXCEPT ![s] = None] /\ got' = [got EXCEPT ![s] = << >>]
    /\ UNCHANGED << pc, fd, fileVars, history, sealed >>
----------------------------------------------------------------------------
(* Secrets.  A text is a nonce, fresh for each, and the box that AES-GCM   *)
(* made with it; the AEAD (external) opens a box with its own key and      *)
(* nonce only.                                                             *)
NonceSize == 1

EncryptBase64(s) ==
    /\ key[s] # None /\ Cardinality(sealed) < MaxSealed
    /\ \E plain \in Plaintexts :
          LET nonce == Cardinality(sealed) + 1
              text == << nonce, [key |-> key[s], nonce |-> nonce, plain |-> plain] >>
          IN  sealed' = sealed \cup { [key |-> key[s], plain |-> plain, text |-> text] }
    /\ UNCHANGED << loadVars, fileVars, history >>

AEADOpen(raw, nonce, rest) ==
    IF Len(rest) = 1 /\ rest[1].key = raw /\ << rest[1].nonce >> = nonce
    THEN rest[1].plain ELSE "error"

SliceFirst(raw, text) ==                \* mutant: a text shorter than the nonce is sliced
    IF text = NotBase64 THEN "error"
    ELSE IF Len(text) < NonceSize THEN "panic"
    ELSE AEADOpen(raw, SubSeq(text, 1, NonceSize), SubSeq(text, NonceSize + 1, Len(text)))

DecryptBase64(raw, text) ==
    IF text = NotBase64 \/ Len(text) < NonceSize THEN "error"
    ELSE AEADOpen(raw, SubSeq(text, 1, NonceSize), SubSeq(text, NonceSize + 1, Len(text)))

----------------------------------------------------------------------------
Init ==
    /\ pc = [s \in Services |-> "idle"]
    /\ files = << >> /\ path = 0 /\ changes = 0
    /\ fd = [s \in Services |-> 0] /\ got = [s \in Services |-> << >>]
    /\ key = [s \in Services |-> None]
    /\ calm = [s \in Services |-> FALSE] /\ spoilt = [s \in Services |-> FALSE]
    /\ sealed = {}

ServiceStep(s) ==
    \/ Stat(s) \/ Open(s) \/ Read(s) \/ Loaded(s) \/ New(s) \/ Restart(s)
    \/ EncryptBase64(s)

Next ==
    \/ Replace \/ Truncate \/ WritePart \/ Chmod \/ Remove
    \/ \E s \in Services : ServiceStep(s)

Spec == Init /\ [][Next]_vars
----------------------------------------------------------------------------
(* No service works with a part of a key, or with parts of two, unless the *)
(* file was rewritten in place between two reads of one ReadFile: a write  *)
(* that is under way, or was cut off, is refused (masterkey.go, readKey).  *)
KeyIsWhole ==
    \A s \in Services :
        key[s] # None /\ ~spoilt[s] => \E k \in Keys : key[s] = Whole(k, KeySize)

Owned(function, mode) ==
    /\ "other" \notin mode
    /\ function = "Load" => "group" \notin mode

(* If nothing happens to the file while it is loaded, the key is what the  *)
(* file holds, and nobody has access who should not.  Stat and ReadFile    *)
(* promise no more than that together (masterkey.go, readKey).             *)
LoadIsChecked ==
    [][\A s \in Services :
          key'[s] # None /\ key'[s] # key[s] /\ calm[s] =>
              /\ path # 0 /\ key'[s] = files[path].content
              /\ Owned(FunctionOf[s], files[path].mode)]_vars

(* What the store may give back: a text, the beginning of one, the box of  *)
(* one after the nonce of another, or what cannot be decoded.              *)
Stored ==
    LET texts == { x.text : x \in sealed }
    IN  { NotBase64, << >> } \cup { << t[1] >> : t \in texts }
        \cup { << t[1], u[2] >> : t \in texts, u \in texts }

(* A text opens to the plaintext it was sealed from, for every service     *)
(* that has loaded the same key and for no other, and anything else is an  *)
(* error (masterkey.go, EncryptBase64 and DecryptBase64).                  *)
OpensWhatWasSealed ==
    \A s \in Services : key[s] # None =>
        \A text \in Stored :
            LET from == { x \in sealed : x.text = text /\ x.key = key[s] }
            IN  IF from = {} THEN DecryptBase64(key[s], text) = "error"
                ELSE \A x \in from : DecryptBase64(key[s], text) = x.plain
=============================================================================
