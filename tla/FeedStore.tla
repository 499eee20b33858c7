------------------------------ MODULE FeedStore ------------------------------
(***************************************************************************)
(* What the reader makes of a data root: Store::entries, Store::channels   *)
(* and Store::validate, the feed view with its channel tabs, and the way a *)
(* tab's link comes back as a query string.                                *)
(*                                                                         *)
(* A data root is [files, catalog]: the Markdown files under content/ and  *)
(* the channel ids config/channels.toml lists, in its order.  Identifiers  *)
(* are sequences of characters, because validation and percent-decoding    *)
(* tell characters apart.  Titles, labels, summaries, the order of the     *)
(* feed and what Markdown renders to are left out.                         *)
(***************************************************************************)
EXTENDS Naturals, Sequences, FiniteSets, Functions

CONSTANTS
    None,       \* no channel selected, no answer, not decodable
    MaxId       \* the longest identifier (128 in the code)

ASSUME NoneAssumption == None \notin Seq(STRING)

-----------------------------------------------------------------------------
(* Identifiers *)

Alphanumeric == {"a", "b", "c", "x", "y", "1", "2"}

validate_id(id) ==
    /\ Len(id) \in 1..MaxId
    /\ Range(id) \subseteq Alphanumeric \cup {"-"}
    /\ id[1] \in Alphanumeric

\* Slip: a channel may be called c++.
AnyChannelId(id) ==
    /\ Len(id) \in 1..MaxId
    /\ id[1] \in Alphanumeric /\ id[Len(id)] # "/"

\* Segments separated by "/", none empty, each starting with a letter or digit.
validate_channel_id(id) ==
    /\ Len(id) \in 1..MaxId
    /\ Range(id) \subseteq Alphanumeric \cup {"-", "/"}
    /\ id[Len(id)] # "/"
    /\ \A i \in 1..Len(id) : i = 1 \/ id[i - 1] = "/" => id[i] \in Alphanumeric

-----------------------------------------------------------------------------
(* Entries and channels *)

\* Front matter that parses in the supported format, and metadata that validates.
parse_entry(file) ==
    /\ file.front
    /\ validate_id(file.id)
    /\ file.stem = file.id
    /\ \A c \in file.channels : validate_channel_id(c)

collect_markdown_files(data) == {f \in data.files : f.ext = "md"}

EntriesParse(data) ==
    LET paths == collect_markdown_files(data)
    IN  /\ \A f \in paths : parse_entry(f)
        /\ \A f, g \in paths : f.id = g.id => f = g

\* Where EntriesParse holds: every entry with its reader state.
entries(data, state) ==
    {[id |-> f.id, channels |-> f.channels, state |-> state[f.id]]
        : f \in collect_markdown_files(data)}

CatalogValid(data) ==
    /\ \A c \in Range(data.catalog) : validate_channel_id(c)
    /\ IsInjective(data.catalog)

\* The catalog's, then those only entries name.
channels(data) ==
    Range(data.catalog) \cup UNION {f.channels : f \in collect_markdown_files(data)}

\* Slip: a snapshot is activated once its entries parse.
ValidateEntries(data) == EntriesParse(data)

\* Store::validate on a staged snapshot, which has no reader state.
validate(data) == EntriesParse(data) /\ CatalogValid(data)

-----------------------------------------------------------------------------
(* Query strings: sequences of key and value, split at "&" and "=" *)

HexDigits == {"1", "2", "a", "b", "B"}

\* The byte the model's escapes stand for; every other one is "?".
Byte(high, low) == IF high = "2" /\ low \in {"b", "B"} THEN "+" ELSE "?"

percent_decode(value) ==
    LET Cons(c, rest) == IF rest = None THEN None ELSE <<c>> \o rest
        from[i \in 1..Len(value) + 1] ==
            IF i > Len(value) THEN <<>>
            ELSE IF value[i] = "+" THEN Cons(" ", from[i + 1])
            ELSE IF value[i] # "%" THEN Cons(value[i], from[i + 1])
            ELSE IF i + 2 <= Len(value) /\ {value[i + 1], value[i + 2]} \subseteq HexDigits
                 THEN Cons(Byte(value[i + 1], value[i + 2]), from[i + 3])
                 ELSE None
    IN  from[1]

\* The first pair of that key; a pair that does not decode is as if absent.
query_value(query, key) ==
    LET decoded == [i \in DOMAIN query |-> percent_decode(query[i].value)]
        found == {i \in DOMAIN query : query[i].key = key /\ decoded[i] # None}
    IN  IF found = {} THEN None
        ELSE decoded[CHOOSE i \in found : \A j \in found : i <= j]

-----------------------------------------------------------------------------
(* The feed view *)

Link(channel) ==
    IF channel = None THEN <<>> ELSE <<[key |-> "channel", value |-> channel]>>

channel_view(channel, selected, count) ==
    [channel |-> channel, link |-> Link(channel), count |-> count,
     selected |-> channel = selected]

Visible(es, channel) == {e \in es : channel = None \/ channel \in e.channels}

build_feed_view(es, ids, selected) ==
    [tabs |-> {channel_view(c, selected, Cardinality(Visible(es, c)))
                  : c \in ids \cup {None}},
     entries |-> {[id |-> e.id, unread |-> ~e.state.read] : e \in Visible(es, selected)}]
=============================================================================
