----------------------------- MODULE FlagTable -----------------------------
(***************************************************************************)
(* Flag tables (flag_table.rs, store.rs derive_creator_flag_table).        *)
(*                                                                         *)
(* A FlagTable maps the hash of every visible root to that root's frame    *)
(* number; a CreatorFlagTable maps a peer to a frame number.  Both are     *)
(* HashMaps in the code and functions with a finite domain here.  A hash   *)
(* is an identity: two events have the same hash only if they are equal.   *)
(***************************************************************************)
EXTENDS Naturals, FiniteSets, FiniteSetsExt

(* HashMap::insert and sled's insert: the old value of a key is replaced.  *)
insert(map, key, value) ==
  [k \in DOMAIN map \cup {key} |-> IF k = key THEN value ELSE map[k]]

(* The keys of a table whose frame is one of the frames in F. *)
KeysAt(ft, F) == {k \in DOMAIN ft : ft[k] \in F}

(* strict_merge_flag_table without the second loop. *)
strict_merge_second_lost(first, second, frame_number) ==
  [k \in KeysAt(first, {frame_number}) |-> frame_number]

(* The entries of either table that sit exactly at frame_number. *)
strict_merge_flag_table(first, second, frame_number) ==
  [k \in KeysAt(first, {frame_number}) \cup KeysAt(second, {frame_number})
     |-> frame_number]

(* open_merge_flag_table with > for >=. *)
open_merge_above_floor(first, second, frame_number) ==
  LET kept  == {k \in DOMAIN first : first[k] > frame_number}
      taken == {k \in DOMAIN second : k \in DOMAIN first => first[k] > second[k]}
  IN  [k \in kept \cup taken |-> IF k \in taken THEN second[k] ELSE first[k]]

(***************************************************************************)
(* The floor is applied to the entries of `first` only; an entry of        *)
(* `second` is taken when `first` has no such key, whatever its frame, or  *)
(* when it lowers the frame `first` has for it.  (The comment in the code, *)
(* that every entry is at or above the floor, does not hold for `second`;  *)
(* nothing reads the entries below.)                                       *)
(***************************************************************************)
open_merge_flag_table(first, second, frame_number) ==
  LET kept  == {k \in DOMAIN first : first[k] >= frame_number}
      taken == {k \in DOMAIN second : k \in DOMAIN first => first[k] > second[k]}
  IN  [k \in kept \cup taken |-> IF k \in taken THEN second[k] ELSE first[k]]

(***************************************************************************)
(* derive_creator_flag_table: per creator the greatest frame (the comment  *)
(* in the code says the minimal one), at or above min_frame, of that       *)
(* creator's roots in the table.  creator[k] is the creator of a stored    *)
(* event, so DOMAIN creator is what get_event finds.  Every key is found   *)
(* (RootsStored of DAGcore); for one that is not, the comparison with      *)
(* NoneError would never return (errors.rs:78).                            *)
(***************************************************************************)
derive_creator_flag_table(ft, minimum, creator) ==
  LET found == {k \in DOMAIN ft : ft[k] >= minimum /\ k \in DOMAIN creator}
  IN  [c \in {creator[k] : k \in found}
         |-> Max({ft[k] : k \in {j \in found : creator[j] = c}})]

(* min_frame: the smallest frame of a creator flag table, 0 if it is empty. *)
min_frame(creator_ft) ==
  IF DOMAIN creator_ft = {} THEN 0 ELSE Min(Range(creator_ft))

(* DAGPeerList::root_majority (peer.rs) for a list of n peers. *)
root_majority(n) == (2 * n) \div 3 + 1
=============================================================================
