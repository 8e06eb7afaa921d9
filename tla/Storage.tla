------------------------------- MODULE Storage -------------------------------
(***************************************************************************)
(* TMQStorage on its file: messages are written, read and removed by their *)
(* shadows, the persistence is enabled and disabled, and the process ends  *)
(* between two calls and is started again on the file it left.  The        *)
(* persistMutex is held by every call, so a call runs to its end.          *)
(***************************************************************************)
EXTENDS SectionSpace

CONSTANTS Lengths,     \* the lengths of the messages
          Topics,
          MetaSize,    \* sizeof(Shadow)
          MaxWrites,   \* bound: how many messages are written
          MaxSwitches, \* bound: how often the persistence is disabled
          MaxRestarts  \* bound: how often the process is started again

ASSUME StorageAssumption ==
    /\ Lengths \subseteq Nat \ {0} /\ MetaSize \in Nat \ {0}
    /\ MaxWrites \in Nat /\ MaxSwitches \in Nat /\ MaxRestarts \in Nat

DATA == "DATA"
META == "META"
BACKUP == "BACKUP"
Spaces == <<DATA, META, BACKUP>>

VARIABLES
    file,     \* the file
    space,    \* the memory of each section space, <<>> when it is closed
    static,   \* the static variables of GetFreedAllocList
    persist,  \* whether the persistence is enabled
    memory,   \* the messages that are kept in memory
    shadows,  \* the shadows that Write gave in this process, not yet removed
    written,  \* how many messages were written: the next one's name
    kept,     \* the messages on the file that were not removed (history)
    spoilt,   \* those of them whose bytes were allocated again (history)
    crossed,  \* whether Remove gave back an address that is not the
              \* message's own (history)
    lost,     \* those that were kept when their process ended (history)
    switches, restarts

vars == <<file, space, static, persist, memory, shadows, written, kept, spoilt,
          crossed, lost, switches, restarts>>

World(n) == [d |-> file, m |-> space[n], static |-> static]
Closed == [n \in ToSet(Spaces) |-> <<>>]
Keep(d) == file' = [d EXCEPT !.log = <<>>]

Init == /\ file = EmptyFile /\ space = Closed /\ static = NoStatic
        /\ persist = FALSE /\ memory = {} /\ shadows = {} /\ written = 0
        /\ kept = {} /\ spoilt = {} /\ crossed = FALSE /\ lost = {} /\ switches = 0 /\ restarts = 0

----------------------------------------------------------------------------
(* EnablePersist(true): what is in META is appended to BACKUP.             *)
Enable ==
    LET o == CreateSpaces(file, Spaces)
    IN  /\ ~persist /\ persist' = TRUE
        /\ Keep(AppendLinearSpace(o.d, BACKUP, META))
        /\ space' = o.m
        /\ UNCHANGED <<static, memory, shadows, written, kept, spoilt, crossed, lost, switches, restarts>>

(* EnablePersist(false) drops DATA and BACKUP, and TOPIC, which there is   *)
(* not, but not META.                                                      *)
Disable ==
    /\ persist /\ persist' = FALSE
    /\ switches < MaxSwitches /\ switches' = switches + 1
    /\ Keep(EraseSection(EraseSection(file, DATA), BACKUP))
    /\ space' = Closed
    /\ kept' = {} /\ lost' = {}
    /\ UNCHANGED <<static, memory, shadows, written, spoilt, crossed, restarts>>

(* TMQBase64::Encode, with the zero at its end                             *)
Encoded(length) == ((length + 2) \div 3) * 4 + 1

(* The else branch of Write.                                               *)
WriteMemory(length, topic) ==
    LET id == written + 1
    IN  /\ written < MaxWrites /\ written' = id
        /\ memory' = memory \cup {id}
        /\ shadows' = shadows \cup {[id |-> id, topic |-> topic, type |-> "MEMORY",
                                     length |-> length, raw |-> length,
                                     data |-> ADDRESS_NULL, meta |-> ADDRESS_NULL]}
        /\ UNCHANGED <<file, space, static, persist, kept, spoilt, crossed, lost, switches, restarts>>

(* The shadows whose data should be on the file, the entry of an address,  *)
(* and whether the pieces of two entries have a byte in common.            *)
Persistent == {s \in shadows : s.id \in kept}
EntryOf(w, address) == LET i == FindAlloc(List(w), address)
                       IN  IF i = 0 THEN NoAlloc ELSE List(w)[i]
Overlap(a, b) == BytesFrom(ByteOf(a.address), a.size) \cap BytesFrom(ByteOf(b.address), b.size) # {}

(* The shadow goes to META before it gets its type and the length of the   *)
(* encoded data.                                                           *)
WrittenPersist(data, meta, new, a) ==
    /\ Keep(meta.d)
    /\ space' = [space EXCEPT ![DATA] = data.m, ![META] = meta.m]
    /\ static' = meta.static
    /\ shadows' = shadows \cup {[new EXCEPT !.type = "PERSIST", !.length = Encoded(@)]}
    /\ spoilt' = spoilt \cup {t.id : t \in {u \in Persistent : Overlap(EntryOf(data, u.data), a)}}
WriteShadow(data, b, new, a) ==
    WrittenPersist(data, WriteSpace(b.w, b.e.sec, MetaSize, <<"meta", new>>), new, a)
AllocateMeta(w) == Allocate([d |-> w.d, m |-> space[META], static |-> w.static], MetaSize)
WriteMeta(data, b, id, length, topic, a) ==
    WriteShadow(data, b, [id |-> id, topic |-> topic, type |-> "NULL", length |-> length,
                          raw |-> length, data |-> a.sec, meta |-> b.e.sec], a)
WriteBoth(data, id, length, topic, a) == WriteMeta(data, AllocateMeta(data), id, length, topic, a)
WriteData(a, id, length, topic) ==
    WriteBoth(WriteSpace(a.w, a.e.sec, Encoded(length), <<"data", id>>), id, length, topic, a.e)
WritePersist(length, topic) ==
    /\ persist
    /\ written < MaxWrites /\ written' = written + 1
    /\ WriteData(Allocate(World(DATA), Encoded(length)), written + 1, length, topic)
    /\ kept' = kept \cup {written + 1}
    /\ UNCHANGED <<persist, memory, crossed, lost, switches, restarts>>

(* Remove: the data space gives back the meta address, the meta space the  *)
(* data address.                                                           *)
LeaveBoth(r, q) == /\ Keep(q.d) /\ static' = q.static
                   /\ space' = [space EXCEPT ![DATA] = r.m, ![META] = q.m]
RemoveMeta(r, s) ==
    LeaveBoth(r, Deallocate([d |-> r.d, m |-> space[META], static |-> r.static], s.data))
RemoveMessage(s) ==
    /\ IF s.type = "PERSIST" /\ persist
       THEN /\ RemoveMeta(Deallocate(World(DATA), s.meta), s)
            /\ crossed' = (crossed \/ s.meta # s.data \/ s.id \notin kept)
       ELSE UNCHANGED <<file, space, static, crossed>>
    /\ memory' = memory \ {s.id} /\ kept' = kept \ {s.id}
    /\ shadows' = shadows \ {s}
    /\ UNCHANGED <<persist, written, spoilt, lost, switches, restarts>>

(* The process ends, and its memory with it.                               *)
Restart ==
    /\ restarts < MaxRestarts /\ restarts' = restarts + 1
    /\ space' = Closed /\ static' = NoStatic
    /\ persist' = FALSE /\ memory' = {} /\ shadows' = {}
    /\ lost' = lost \cup kept /\ kept' = {} /\ spoilt' = {}
    /\ UNCHANGED <<file, written, crossed, switches>>

Next == \/ Enable \/ Disable \/ Restart
        \/ \E length \in Lengths, topic \in Topics :
             WriteMemory(length, topic) \/ WritePersist(length, topic)
        \/ \E s \in shadows : RemoveMessage(s)

Spec == Init /\ [][Next]_vars
----------------------------------------------------------------------------
(* Read, which changes nothing but the message it is given: the bytes, the *)
(* length the message gets, and the result.                                *)
Read(s) ==
    LET bytes == ReadSpace(World(DATA), s.data, s.length)
    IN  CASE s.type = "PERSIST" /\ persist -> [data |-> {bytes[b] : b \in DOMAIN bytes},
                                               length |-> s.length, suc |-> bytes # <<>>]
          [] s.type = "MEMORY" -> [data |-> IF s.id \in memory THEN {<<"data", s.id>>} ELSE {},
                                   length |-> s.length, suc |-> TRUE]
          [] OTHER -> [data |-> {}, length |-> s.length, suc |-> FALSE]

(* FindShadows: what the entries in use of BACKUP read as, in their order, *)
(* if their topic is wanted; one more than the limit.                      *)
FindShadows(topics, limit) ==
    LET inUse == SelectSeq(List(World(BACKUP)), LAMBDA x : x.state = "ALLOC")
        Stored(x) == LET bytes == ReadSpace(World(BACKUP), x.sec, MetaSize)
                     IN  bytes[Min(DOMAIN bytes)]
        found == SelectSeq(<<>> \o [i \in DOMAIN inUse |-> Stored(inUse[i])],
                           LAMBDA v : v[1] = "meta" /\ v[2].topic \in topics)
    IN  IF ~persist THEN <<>>
        ELSE IF limit > 0 THEN SubSeq(found, 1, Min({limit + 1, Len(found)})) ELSE found
----------------------------------------------------------------------------
(* What Read gives of a message that is on the file is what was written:   *)
(* releases, resets, resizes, page reuse and truncation of the three       *)
(* sections, in this process or after restarts, touch nothing but what the *)
(* two known ways to damage a message touch (see spoilt).                  *)
KeptBytes ==
    \A s \in Persistent :
        persist /\ ~crossed /\ s.id \notin spoilt =>
            Read(s) = [data |-> {<<"data", s.id>>}, length |-> s.length, suc |-> TRUE]

(* The pages of the lists and of the pieces of the sections are disjoint,  *)
(* and no write has gone beyond the end of the file.                       *)
Names == {n \in ToSet(Spaces) : HasSection(file, n)}
Starts == {Section(file, n).start : n \in Names \cup {ALLOC}}
PagesIn(n) == {x.address[1] : x \in {y \in ToSet(ListAt(file, Section(file, n).start)) : y.state \in {"ALLOC", "FREE"}}}
SpacesDisjoint ==
    persist /\ ~crossed =>
      /\ ~file.fault
      /\ \A n \in Names : PagesIn(n) \cap Starts = {}
      /\ \A n, o \in Names : n # o => PagesIn(n) \cap PagesIn(o) = {}

(* ------ What the documentation says, and the code does not keep -------- *)

(* Remove takes away the message of the shadow (Storage.h:43) and no other *)
(* one can be read no longer.                                              *)
RemoveTakesOne ==
    \A s \in Persistent :
        persist /\ s.id \notin spoilt => Read(s).suc /\ Read(s).data = {<<"data", s.id>>}

(* A message has its own length when it is read (TMQMsg: the length of the *)
(* data), not that of its Base64 form.                                     *)
LengthKept == \A s \in Persistent : persist => Read(s).length = s.raw

(* FindShadows finds each message that was lost with its process exactly   *)
(* once (Storage.h:21-22: the messages "that persisted into a file, which  *)
(* may be the lost messages for power off, or unexpected exit").           *)
Found == FindShadows(Topics, -1)
FoundOnce == persist /\ ~crossed => \A m \in lost :
                Cardinality({i \in DOMAIN Found : Found[i][2].id = m}) = 1

(* What FindShadows finds can be read: the process had stored the message. *)
FoundReadable == \A i \in DOMAIN Found : Read(Found[i][2]).suc

(* A disabled persistence leaves no message (TMQStorage.h:82: "drop all    *)
(* section and erase all data").                                           *)
DisableErases == {Found[i][2].id : i \in DOMAIN Found} \subseteq lost
=============================================================================
