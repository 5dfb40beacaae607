------------------------------- MODULE Datasets -------------------------------
(***************************************************************************)
(* One dataset of the engine's storage (Storage.cpp): a pool of words cut    *)
(* into blocks from its bottom up, and a registry of (address of a pointer   *)
(* variable, block it was given) pairs.  There is no free list: a block     *)
(* lives as long as some registered variable still points to it, which only *)
(* the collection of the registry finds out; the pool is compacted when it  *)
(* runs out, and then the allocator itself rewrites every registered         *)
(* variable that pointed to a moved block.                                  *)
(*                                                                         *)
(* Addresses are word offsets in memoryTable.  The datasets share nothing   *)
(* but code, so one stands for each.  The variables are the program's: it    *)
(* overwrites them without telling the allocator (Forget), and leaves        *)
(* functions whose locals stay registered (Leave).                          *)
(***************************************************************************)
EXTENDS Integers, Sequences, SequencesExt

CONSTANTS
  Vars,     \* addresses of pointer variables given to the allocator
  Locals,   \* those of them on the stack
  Limit,    \* storageLimit, in words
  Cap,      \* STORAGE_ENTRY_CAP
  Header,   \* HEADER_SIZE
  Sizes     \* sizes asked for, in words

ASSUME DatasetAssumption ==
  /\ Locals \subseteq Vars
  /\ Limit \in Nat /\ Cap \in Nat \ {0} /\ Header \in Nat \ {0}
  /\ Sizes \subseteq Nat /\ IsFiniteSet(Vars)

VARIABLES
  blocks,   \* the headers below usedStorage, in address order
  entries,  \* dataEntries and storageEntries, up to entryCount
  mem,      \* what each variable holds: an address, or Null
  word,     \* the words of the pool: which text each is part of
  text,     \* the text the program has put in the block a variable owns
  loose     \* variables CopyStorage could not register

vars == <<blocks, entries, mem, word, text, loose>>

Null == -1
NoText == 0
Texts == 1 .. Cardinality(Vars) + 1
Entry(v, a) == [var |-> v, at |-> a]

(* usedStorage: blocks lie one after the other, header first.               *)
Tops(bs) ==
  LET top[i \in 0 .. Len(bs)] == IF i = 0 THEN 0 ELSE top[i - 1] + Header + bs[i].len
  IN top
Used(bs) == Tops(bs)[Len(bs)]
DataAt(bs, i) == Tops(bs)[i - 1] + Header

Init ==
  /\ blocks = <<>> /\ entries = <<>>
  /\ mem = [v \in Vars |-> Null]
  /\ word = [a \in 0 .. Limit - 1 |-> NoText]
  /\ text = [v \in Vars |-> NoText]
  /\ loose = {}

-----------------------------------------------------------------------------
(* The registry and the compaction, as functions of a state.                *)

(* What is kept of a table is moved up over the gaps, in its order.           *)
Kept(s, I) ==
  LET upTo[i \in 0 .. Len(s)] ==
        IF i = 0 THEN <<>> ELSE IF i \in I THEN Append(upTo[i - 1], s[i]) ELSE upTo[i - 1]
  IN upTo[Len(s)]

(* GarbageCollectStorage: an entry counts while its variable holds what it   *)
(* was given.                                                               *)
CollectCleared(es, m) ==                         \* faulty: cleared ones only
  Kept(es, {i \in DOMAIN es : m[es[i].var] # Null})
Collect(es, m) == Kept(es, {i \in DOMAIN es : m[es[i].var] = es[i].at})

(* Collection once the table is full.                                       *)
CollectIfFull(es, m) == IF Len(es) >= Cap THEN Collect(es, m) ELSE es

(* The entries of a block: storageEntries are compared with its address.     *)
FirstOwner(es, a) == {i \in DOMAIN es : es[i].at = a /\ \A j \in 1 .. i - 1 : es[j].at # a}
                                                 \* faulty: one owner per block
Owners(es, a) == {i \in DOMAIN es : es[i].at = a}

LowestKept(b, es) == b.off = Header \/ Owners(es, b.off) # {}   \* faulty
Referenced(b, es) == Owners(es, b.off) # {}

(* The blocks in use are moved down over the gaps, lowest first.            *)
Moved(live, w) ==
  [a \in DOMAIN w |->
     LET here == {i \in DOMAIN live : Tops(live)[i - 1] <= a /\ a < Tops(live)[i]}
     IN IF here = {} THEN w[a]
        ELSE LET i == CHOOSE j \in here : TRUE
             IN w[live[i].off - DataAt(live, i) + a]]

(* Each block's new address goes to the entries that still name its old one, *)
(* block after block, into the table the next block is looked up in.        *)
Retarget(s, old, new) ==
  LET hit == Owners(s.entries, old)
  IN [entries |-> [i \in DOMAIN s.entries |->
                     IF i \in hit THEN [s.entries[i] EXCEPT !.at = new] ELSE s.entries[i]],
      mem |-> [v \in Vars |->
                 IF \E i \in hit : s.entries[i].var = v THEN new ELSE s.mem[v]]]

Retargeted(live, s) ==
  LET upTo[i \in 0 .. Len(live)] ==
        IF i = 0 THEN s ELSE Retarget(upTo[i - 1], live[i].off, DataAt(live, i))
  IN upTo

(* DefragmentAndGarbageCollectStorage.                                       *)
Defragmented(s) ==
  LET es == Collect(s.entries, s.mem)
      live == Kept(s.blocks, {i \in DOMAIN s.blocks : Referenced(s.blocks[i], es)})
      after == Retargeted(live, [entries |-> es, mem |-> s.mem])[Len(live)]
  IN IF Len(live) = Len(s.blocks)
     THEN [s EXCEPT !.entries = es]
     ELSE [blocks |-> [i \in DOMAIN live |-> [live[i] EXCEPT !.off = DataAt(live, i)]],
           entries |-> after.entries,
           mem |-> after.mem,
           word |-> Moved(live, s.word)]

(* Room for a block and its header; the pool is never filled to the brim.    *)
RoomForData(bs, n) == Used(bs) + n < Limit  \* faulty: no header
Room(bs, n) == Used(bs) + n + Header < Limit

Push(bs, n) == Append(bs, [off |-> Used(bs) + Header, len |-> n])

(* The header of the new block and, from its k-th word on, text t.            *)
Written(w, b, k, t) ==
  [a \in DOMAIN w |-> IF a \in b.off + k .. b.off + b.len - 1 THEN t
                      ELSE IF a \in b.off - Header .. b.off - 1 THEN NoText
                      ELSE w[a]]
(* Only the words that are part of a text count: those in the block of a      *)
(* variable that owns it.                                                   *)
TextWords(w) ==
  [a \in DOMAIN w |->
     IF \E v \in Vars, i \in DOMAIN blocks' :
          /\ text'[v] = w[a] /\ mem'[v] = blocks'[i].off
          /\ a \in mem'[v] .. mem'[v] + blocks'[i].len - 1
     THEN w[a] ELSE NoText]

(* The state an allocation starts from: the variable is cleared before       *)
(* anything else, and the pool is compacted only if it has run out.          *)
Prepared(v, n) ==
  LET s == [blocks |-> blocks, entries |-> entries,
            mem |-> [mem EXCEPT ![v] = Null], word |-> word]
  IN IF Len(entries) < Cap /\ ~Room(blocks, n) THEN Defragmented(s) ELSE s

(* AllocateStorage(&v, n), the words of the new block taking text t.         *)
Allocated(v, n, t) ==
  LET s == Prepared(v, n)
      bs == Push(s.blocks, n)
      m == [s.mem EXCEPT ![v] = Last(bs).off]
  IN IF Len(entries) < Cap /\ Room(s.blocks, n)
     THEN [blocks |-> bs,
           entries |-> CollectIfFull(Append(s.entries, Entry(v, Last(bs).off)), m),
           mem |-> m,
           word |-> Written(s.word, Last(bs), 0, t)]
     ELSE s

Become(s) ==
  /\ blocks' = s.blocks /\ entries' = s.entries /\ mem' = s.mem
  /\ word' = TextWords(s.word)

-----------------------------------------------------------------------------
(* A text no variable owns.                                                  *)
FreshText == CHOOSE t \in Texts : \A u \in Vars : text[u] # t

(* A caller allocates and fills its block.                                   *)
Allocate(v, n) ==
  /\ LET s == Allocated(v, n, FreshText) IN
     /\ text' = [text EXCEPT ![v] = IF s.mem[v] = Null THEN NoText ELSE FreshText]
     /\ Become(s)
  /\ loose' = loose \ {v}

(* RemoveStorageEntry(&v).  The test reads v itself at every entry, so past   *)
(* v's own entry, which clears it, it only matches variables that are clear. *)
Own(v) == {i \in DOMAIN entries : entries[i].var = v}
Reach(v) == IF Own(v) = {} THEN Len(entries) ELSE CHOOSE i \in Own(v) : \A j \in Own(v) : i <= j
ClearedBy(v) ==
  {entries[i].var : i \in {j \in 1 .. Reach(v) : mem[entries[j].var] = mem[v]}}
Dropped(v, i) ==
  LET u == entries[i].var IN
  IF i <= Reach(v)
  THEN mem[u] = mem[v] /\ \A j \in 1 .. i - 1 : entries[j].var # u
  ELSE u \in ClearedBy(v) \/ mem[u] = Null

RemoveEntry(v) ==
  /\ text[v] # NoText /\ v \notin loose
  /\ mem' = [u \in Vars |-> IF u \in ClearedBy(v) THEN Null ELSE mem[u]]
  /\ entries' = Kept(entries, {i \in DOMAIN entries : ~Dropped(v, i)})
  /\ text' = [u \in Vars |-> IF u \in ClearedBy(v) THEN NoText ELSE text[u]]
  /\ UNCHANGED <<blocks, loose>>
  /\ word' = TextWords(word)

(* InitStringList: v takes over the block of w, and both are registered while *)
(* the table has room.                                                      *)
Copy(v, w) ==
  /\ v # w /\ text[w] # NoText /\ w \notin loose
  /\ mem' = [mem EXCEPT ![v] = mem[w]]
  /\ entries' = IF Len(entries) < Cap
                THEN CollectIfFull(Append(entries, Entry(v, mem[w])), mem')
                ELSE entries
  /\ text' = [text EXCEPT ![v] = text[w]]
  /\ loose' = IF Len(entries) < Cap THEN loose \ {v} ELSE loose \cup {v}
  /\ UNCHANGED blocks
  /\ word' = TextWords(word)

(* The program overwrites a variable: MEM_ZERO of a list, chars = NULL.       *)
Forget(v) ==
  /\ text[v] # NoText
  /\ mem' = [mem EXCEPT ![v] = Null]
  /\ text' = [text EXCEPT ![v] = NoText]
  /\ loose' = loose \ {v}
  /\ UNCHANGED <<blocks, entries>>
  /\ word' = TextWords(word)

(* A function returns: its local's stack word is whatever comes to lie there. *)
Leave(v) ==
  /\ v \in Locals
  /\ \E a \in {Null} \cup {blocks[i].off : i \in DOMAIN blocks} : mem' = [mem EXCEPT ![v] = a]
  /\ text' = [text EXCEPT ![v] = NoText]
  /\ loose' = loose \ {v}
  /\ UNCHANGED <<blocks, entries>>
  /\ word' = TextWords(word)

(* LoadSceneFolder compacts the stage's pool.                                *)
Defragment ==
  /\ UNCHANGED <<text, loose>>
  /\ Become(Defragmented([blocks |-> blocks, entries |-> entries, mem |-> mem, word |-> word]))

(* LoadSceneAssets empties the pool of temporaries but not its registry; the  *)
(* loader holds none of them at that point.                                 *)
Reset ==
  /\ \A v \in Vars : text[v] = NoText
  /\ blocks' = <<>>
  /\ UNCHANGED <<entries, mem, word, text, loose>>

(* AppendText, AppendString: the old text is copied from where it was before  *)
(* the longer block was allocated for the same variable.                    *)
AppendText(v, n) ==
  LET old == mem[v]
      len == (CHOOSE b \in ToSet(blocks) : b.off = old).len
      before == Prepared(v, len + n)
      s == Allocated(v, len + n, text[v])
      new == Last(s.blocks)
      copied[i \in 0 .. len] ==
        IF i = 0 THEN Written(before.word, new, new.len, text[v])
        ELSE [copied[i - 1] EXCEPT ![new.off + i - 1] = copied[i - 1][old + i - 1]]
  IN
  /\ text[v] # NoText /\ v \notin loose
  /\ blocks' = s.blocks /\ entries' = s.entries /\ mem' = s.mem
  /\ IF s.mem[v] = Null
     THEN text' = [text EXCEPT ![v] = NoText] /\ word' = TextWords(s.word)
     ELSE UNCHANGED text /\ word' = TextWords(Written(copied[len], new, len, text[v]))
  /\ UNCHANGED loose

Next ==
  \/ \E v \in Vars, n \in Sizes : Allocate(v, n)
  \/ \E v \in Vars : RemoveEntry(v)
  \/ \E v, w \in Vars : Copy(v, w)
  \/ \E v \in Vars : Forget(v)
  \/ \E v \in Vars : Leave(v)
  \/ Defragment
  \/ Reset
NextText == Next \/ \E v \in Vars, n \in Sizes : AppendText(v, n)

Spec == Init /\ [][Next]_vars
SpecText == Init /\ [][NextText]_vars

-----------------------------------------------------------------------------
(* Types; the pool and the registry stay within their limits, and between     *)
(* calls every header names the place its block is at (the compaction finds   *)
(* the owners of a block by that name).                                     *)
TypeOK ==
  /\ blocks \in Seq([off : Nat, len : Nat])
  /\ entries \in Seq([var : Vars, at : Nat])
  /\ mem \in [Vars -> Nat \cup {Null}]
  /\ word \in [0 .. Limit - 1 -> Texts \cup {NoText}]
  /\ text \in [Vars -> Texts \cup {NoText}]
  /\ loose \subseteq Vars
  /\ Used(blocks) <= Limit /\ Len(entries) <= Cap
  /\ \A i \in DOMAIN blocks : blocks[i].off = DataAt(blocks, i)

(* Whatever is allocated, collected, compacted or removed for others, and     *)
(* whatever words departed locals leave behind, a variable that owns a block  *)
(* points to it and the block holds what its owner wrote.  Variables the full *)
(* registry could not take are exempt.                                      *)
Intact ==
  \A v \in Vars : text[v] # NoText /\ v \notin loose =>
    \E i \in DOMAIN blocks :
      /\ blocks[i].off = mem[v]
      /\ \A a \in mem[v] .. mem[v] + blocks[i].len - 1 : word[a] = text[v]

(* The words of blocks some variable other than v still holds.               *)
HeldWithout(v) ==
  Used(Kept(blocks, {k \in DOMAIN blocks :
    \E i \in DOMAIN entries : entries[i].var # v /\ entries[i].at = blocks[k].off
                             /\ mem[entries[i].var] = blocks[k].off}))

(* Fragmentation never refuses an allocation: it fails only if the registry   *)
(* is full, or if the blocks the others hold leave no room even compacted.    *)
RefusedOnlyWhenFull ==
  [][\A v \in Vars, n \in Sizes :
       mem'[v] = Null /\ Len(entries) < Cap /\ Allocate(v, n) =>
         HeldWithout(v) + n + Header >= Limit]_vars

(* A compaction keeps a block only for a variable that points to it: what the *)
(* program dropped without telling the allocator is reclaimed all the same.   *)
CompactionLeavesNoGarbage ==
  [][Defragment => \A i \in DOMAIN blocks' : \E v \in Vars : mem'[v] = blocks'[i].off]_vars
=============================================================================
