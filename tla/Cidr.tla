-------------------------------- MODULE Cidr --------------------------------
(***************************************************************************)
(* IPv4 CIDRs as internal/policy/cidr.go parses and normalises them, over  *)
(* words of W bits: sorted and merged as ranges, and split into aligned    *)
(* blocks again.                                                           *)
(***************************************************************************)
EXTENDS Integers, Sequences, FiniteSets, SequencesExt

CONSTANT W  \* bits of an address: 32 in the code

ASSUME WAssumption == W \in Nat \ {0}

(* The addresses of a block whose prefix has len bits: 2^(W - len). *)
Size[len \in 0..W] == IF len = W THEN 1 ELSE 2 * Size[len + 1]
Address == 0..Size[0] - 1

(* A line of a list: an address or a CIDR, whose address may have host bits, an *)
(* IPv6 entry, or anything else.  A name of a list of domains is a line too.    *)
Line == [kind : {"cidr", "v6", "junk", "name"}, addr : Address, len : 0..W]
Cidr(addr, len) == [kind |-> "cidr", addr |-> addr, len |-> len]

(* ParseIPv4CIDR accepts CIDRs only and clears the host bits. *)
ParseIPv4CIDR(line) == Cidr(line.addr - (line.addr % Size[line.len]), line.len)

(* What a CIDR stands for. *)
Addresses(cidr) == cidr.addr..cidr.addr + Size[cidr.len] - 1
Covered(cidrs) == UNION {Addresses(c) : c \in cidrs}

-----------------------------------------------------------------------------
RangeOf(cidr) == [start |-> cidr.addr,
                  end |-> (cidr.addr + (Size[cidr.len] - 1)) % Size[0]]
Precedes(r, s) == r.start < s.start \/ (r.start = s.start /\ r.end < s.end)
Sorted(ranges) ==
  [k \in 1..Cardinality(ranges) |->
     CHOOSE r \in ranges : Cardinality({s \in ranges : Precedes(s, r)}) = k - 1]

(* One range after those merged so far, as 64-bit numbers.  NarrowMerge adds one *)
(* to the end in W bits.                                                         *)
NarrowMerge(merged, r) ==
  IF merged # <<>> /\ r.start <= (Last(merged).end + 1) % Size[0]
  THEN [merged EXCEPT ![Len(merged)].end = IF r.end > @ THEN r.end ELSE @]
  ELSE Append(merged, r)
Merge(merged, r) ==
  IF merged # <<>> /\ r.start <= Last(merged).end + 1
  THEN [merged EXCEPT ![Len(merged)].end = IF r.end > @ THEN r.end ELSE @]
  ELSE Append(merged, r)

(* The prefix length of the largest block that starts at an address and ends at *)
(* `end' or before.                                                             *)
Prefix(start, end) ==
  LET Fits(len) == start % Size[len] = 0 /\ Size[len] <= end - start + 1
  IN  CHOOSE len \in 0..W : Fits(len) /\ (len > 0 => ~Fits(len - 1))

(* The fewest blocks from an address to another, as first address and prefix.   *)
(* WideRangeToCIDRs takes the length of the block's size for its exponent.      *)
Blocks(start, end) ==
  LET from[s \in start..end] ==
        LET size == Size[Prefix(s, end)]
        IN  {<<s, Prefix(s, end)>>} \cup (IF size >= end - s + 1 THEN {} ELSE from[s + size])
  IN  from[start]
WideRangeToCIDRs(start, end) == {Cidr(b[1], b[2] - 1) : b \in Blocks(start, end)}
RangeToCIDRs(start, end) == {Cidr(b[1], b[2]) : b \in Blocks(start, end)}

(* The ranges, in order, merged one after the other. *)
Merged(ranges) ==
  LET sorted == Sorted(ranges)
      merged[k \in 0..Len(sorted)] ==
        IF k = 0 THEN <<>> ELSE Merge(merged[k - 1], sorted[k])
  IN  merged[Len(sorted)]
NormalizeIPv4CIDRs(cidrs) ==
  UNION {RangeToCIDRs(r.start, r.end) : r \in Range(Merged({RangeOf(c) : c \in cidrs}))}
=============================================================================
