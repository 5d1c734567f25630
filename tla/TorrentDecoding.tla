---------------------------- MODULE TorrentDecoding ----------------------------
(****************************************************************************)
(* What Client makes of a 2xx body that lists torrents: decodeTorrent-        *)
(* Collection and Latest read the JSON, validTorrents keeps the torrents that *)
(* validateTorrent accepts and logs the others.                               *)
(*                                                                          *)
(* A body is a record: shape is "array", "object" or "other", items are the   *)
(* torrents in it.  A torrent as the upstream sends it is a record: flaws are *)
(* the fields that do not hold what they should, and mistyped tells that one  *)
(* of them is not even of the JSON type its Go field has.  hash is a digest   *)
(* and whether its letters are upper case; label and main are texts; alias    *)
(* is "blank" if it is white space; updated is 0 for the zero time.           *)
(****************************************************************************)
EXTENDS Picking, FiniteSets, FiniteSetsExt

CONSTANTS
    latestLimit,                   \* the torrents read of the latest window
    invalidTorrentLogSampleLimit   \* the warnings about single torrents

ASSUME DecodingAssumption ==
    latestLimit \in Nat /\ invalidTorrentLogSampleLimit \in Nat

\* The checks of validateTorrent, in its order.
Fields == <<"encoding", "hash", "size", "seeders", "leechers", "completed_times",
            "release.id", "release.year", "release.type.value", "updated_at", "magnet",
            "label", "release.name.main", "release.alias">>

\* The field a torrent is dropped for, "" for a valid one.  expected is the
\* release that was asked for, 0 if none was.
FieldAtFault(raw, expected) ==
    LET failed == {i \in DOMAIN Fields : Fields[i] \in raw.flaws} IN
    IF failed # {} THEN Fields[Min(failed)]
    ELSE IF expected > 0 /\ raw.release # expected THEN "release.id" ELSE ""

\* strings.ToLower of the hash.
Lower(hash) == hash[1]

\* validateTorrent: the torrent handed on, its hash in lower case.
Validated(raw) ==
    [hash |-> Lower(raw.hash), release |-> raw.release, type |-> raw.type,
     label |-> raw.label, main |-> raw.main, alias |-> raw.alias,
     updated |-> raw.updated, seeders |-> raw.seeders, leechers |-> raw.leechers]

\* decodeJSON of a list: a torrent whose UnmarshalJSON fails fails them all.
DecodeList(items) ==
    IF \E i \in DOMAIN items : items[i].mistyped
    THEN [ok |-> FALSE, raw |-> << >>] ELSE [ok |-> TRUE, raw |-> items]

\* decodeTorrentCollection: a singleton object stands for a list of one.
DecodeCollection(body) ==
    IF body.shape \in {"array", "object"} THEN DecodeList(body.items)
    ELSE [ok |-> FALSE, raw |-> << >>]

\* Latest takes no object, and the first latestLimit torrents of an array.
DecodeLatest(body) ==
    LET decoded == DecodeList(body.items) IN
    IF body.shape # "array" THEN [ok |-> FALSE, raw |-> << >>]
    ELSE [decoded EXCEPT !.raw = SubSeq(@, 1, Min({Len(@), latestLimit}))]

\* validTorrents: what is kept, and what is logged of the rest.
ValidTorrents(raw, expected) ==
    LET faulty  == {i \in DOMAIN raw : FieldAtFault(raw[i], expected) # ""}
        invalid == Pick([i \in DOMAIN raw |-> i], faulty)
        valid   == Pick(raw, DOMAIN raw \ faulty)
        sampled == Min({Len(invalid), invalidTorrentLogSampleLimit})
    IN  [torrents |-> [i \in DOMAIN valid |-> Validated(valid[i])],
         samples  |-> [k \in 1..sampled |->
                          [index |-> invalid[k] - 1,
                           field |-> FieldAtFault(raw[invalid[k]], expected)]],
         omitted  |-> Len(invalid) - sampled]
==============================================================================
