-------------------------- MODULE WireguardArchive --------------------------
(***************************************************************************)
(* The archive of WireGuard configurations (cores/wireguard.ts) and the    *)
(* writer that lays it out (cores/zip.ts): local headers with the files,   *)
(* then a directory that says where each header starts, then a record      *)
(* that says where the directory starts.  Only lengths and positions are   *)
(* kept; an archive is the sequence of records written, each with the      *)
(* position it was written at.                                             *)
(***************************************************************************)
EXTENDS Naturals, Sequences, SequencesExt, Functions

LocalHeaderSize   == 30
CentralHeaderSize == 46
EndRecordSize     == 22

\* A file: how long its name and its content are.
Entry(name, content) == [name |-> name, content |-> content]

LocalSize(e)   == LocalHeaderSize + e.name + e.content
CentralSize(e) == CentralHeaderSize + e.name

Total(sizes) == FoldLeft(LAMBDA sum, n : sum + n, 0, sizes)

\* The size the buffer is given before anything is written.
Predicted(entries) ==
    Total([i \in DOMAIN entries |-> LocalSize(entries[i])])
        + Total([i \in DOMAIN entries |-> CentralSize(entries[i])]) + EndRecordSize

\* Writing a record of some length moves the writer by as much.
Write(archive, record, length) ==
    [records |-> Append(archive.records, [at |-> archive.position] @@ record), position |-> archive.position + length]

WriteLocals(entries) ==
    FoldLeft(LAMBDA archive, e : Write(archive, [kind |-> "local", entry |-> e], LocalSize(e)),
             [records |-> <<>>, position |-> 0], entries)

\* Each entry of the directory names the position its header was written at.
WriteCentrals(archive, entries) ==
    LET offsets == [i \in DOMAIN entries |-> archive.records[i].at]
        directory(a, i) == Write(a, [kind |-> "central", entry |-> entries[i], offset |-> offsets[i]],
                                 CentralSize(entries[i]))
    IN  FoldLeft(directory, archive, [i \in DOMAIN entries |-> i])

ZipStore(entries) ==
    LET locals   == WriteLocals(entries)
        centrals == WriteCentrals(locals, entries)
        size     == Total([i \in DOMAIN entries |-> CentralSize(entries[i])])
    IN  Write(centrals, [kind |-> "end", count |-> Len(entries), size |-> size, offset |-> locals.position],
              EndRecordSize)

\* The name of an entry ends with its number, the content with its endpoint; lengths holds theirs.
Digits(n) == IF n < 10 THEN 1 ELSE 2
WireguardEntries(endpoints, lengths, pro) ==
    [i \in DOMAIN endpoints |->
        Entry(lengths.name + Digits(i),
              lengths.content + lengths.host[endpoints[i]] + IF pro THEN lengths.noise ELSE 0)]

GetWireguardConfigs(endpoints, lengths, pro) == ZipStore(WireguardEntries(endpoints, lengths, pro))

(***************************************************************************)
(* What a reader of the archive does: from the record at the end to the    *)
(* directory, from its entries to the files.  The writer fills the buffer  *)
(* it was given exactly.                                                   *)
(***************************************************************************)
At(archive, position) == {r \in ToSet(archive.records) : r.at = position}

Readable(archive, entries) ==
    LET end == Last(archive.records)
        directory == SelectSeq(archive.records, LAMBDA r : r.kind = "central")
    IN  /\ archive.position = Predicted(entries)
        /\ end.kind = "end" /\ end.count = Len(entries)
        /\ end.offset + end.size = end.at
        /\ entries # <<>> => directory[1].at = end.offset
        /\ \A i \in DOMAIN directory :
             \E r \in At(archive, directory[i].offset) : r.kind = "local" /\ r.entry = entries[i]
=============================================================================
