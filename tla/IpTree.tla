------------------------------- MODULE IpTree -------------------------------
(***************************************************************************)
(* The radix tree of @ipMatch (msc_tree.cc, ip_tree.cc).  Its leaves hold  *)
(* the addresses of the networks added, cut to their prefix lengths        *)
(* ("netmasks"); a list of netmasks at a node says which lengths to try    *)
(* for the addresses below it.  One tree serves IPv4 and one IPv6: a tree  *)
(* for addresses of IpBits bits stands for both.                           *)
(***************************************************************************)
EXTENDS Naturals, Sequences

CONSTANTS IpBits,      \* 32 or 128 in the code
          Networks,    \* what may be added: addresses with a netmask
          MaxNetworks  \* bound on the networks added

VARIABLES tree,        \* CPTTree: nodes by number, and the number of the head
          added,       \* history: the networks added, in order
          unmade       \* an entry could not be added: the operator is not made

ipVars == <<tree, added, unmade>>

Address == [1..IpBits -> {0, 1}]
NullNode == 0

ASSUME IpTreeAssumption ==
    /\ IpBits \in Nat \ {0}
    /\ Networks \subseteq [address : Address, netmask : 0..IpBits]
    /\ MaxNetworks \in Nat

(* ConvertIPNetmask.  *)
ConvertIPNetmask(a, netmask) == [i \in 1..IpBits |-> IF i <= netmask THEN a[i] ELSE 0]

CPTCreateRadixTree == [head |-> NullNode, node |-> << >>]

(* A leaf (bit = IpBits) with its prefix, or a fork on the bit after "bit".*)
(* netmasks: a list, or no list at all.                                    *)
Node(bit, prefix, data) ==
    [bit |-> bit, prefix |-> prefix, data |-> data, list |-> FALSE, netmasks |-> << >>,
     left |-> NullNode, right |-> NullNode, parent |-> NullNode]

Child(t, n, a) == IF a[t.node[n].bit + 1] = 1 THEN t.node[n].right ELSE t.node[n].left

(* A loop: from n, to what "next" says, until it says to stay.             *)
Walk(next, n) ==
    LET f[m \in DOMAIN next] == IF next[m] = m THEN m ELSE f[next[m]]
    IN  f[n]

(* The leaf an address leads to, and the way up from it.                   *)
Down(t, a) ==
    [m \in DOMAIN t.node |-> IF t.node[m].bit >= IpBits THEN m ELSE Child(t, m, a)]

CPTRetriveNode(t, a, n) == Walk(Down(t, a), n)

(* The last node above n whose bit is not below b.                         *)
Up(t, b) ==
    [m \in DOMAIN t.node |->
        LET p == t.node[m].parent
        IN  IF p # NullNode /\ b <= t.node[p].bit THEN p ELSE m]

Climb(t, n, b) == Walk(Up(t, b), n)

(* A list that gets longer is a new one, of zeros: it forgets the netmasks *)
(* that were in it.                                                        *)
Lengthened(netmasks, netmask) ==
    [i \in 1..Len(netmasks) + 1 |-> IF i = 1 THEN netmask ELSE 0]

AddToList(t, n, netmask) ==
    [t EXCEPT !.node[n].list = TRUE, !.node[n].netmasks = Lengthened(@, netmask)]

(* CheckBitmask: a whole address needs no netmask.                         *)
CheckBitmask(netmask) == netmask = IpBits

InsertNetmask(t, n, netmask) ==
    IF CheckBitmask(netmask) THEN t ELSE AddToList(t, Climb(t, n, netmask), netmask)

CPTCreateHead(a, netmask) ==
    InsertNetmask([head |-> 1, node |-> <<Node(IpBits, a, netmask)>>], 1, netmask)

(* The address is there already.  Only the netmask it was added with is    *)
(* added once more; another one is dropped.                                *)
SamePrefix(t, n, netmask) ==
    IF t.node[n].data = netmask THEN InsertNetmask(t, n, netmask) ELSE t

(* A new fork above n, where the address leaves the others; it takes the   *)
(* netmasks that are not longer than the common bits.                      *)
Fork(t, n, bit, a, netmask) ==
    LET leaf  == Len(t.node) + 1
        fork  == Len(t.node) + 2
        old   == t.node[n]
        short == CHOOSE i \in 1..Len(old.netmasks) + 1 :
                    /\ i <= Len(old.netmasks) => old.netmasks[i] <= bit
                    /\ \A j \in 1..i - 1 : old.netmasks[j] > bit
        below == [old EXCEPT !.netmasks = SubSeq(@, 1, short - 1),
                             !.list = @ /\ short > 1,
                             !.parent = fork]
        made  == [Node(bit, << >>, 0) EXCEPT
                    !.list = old.list,
                    !.netmasks = SubSeq(old.netmasks, short, Len(old.netmasks)),
                    !.parent = old.parent,
                    !.left  = IF a[bit + 1] = 1 THEN n ELSE leaf,
                    !.right = IF a[bit + 1] = 1 THEN leaf ELSE n]
        new   == [Node(IpBits, a, netmask) EXCEPT !.parent = fork]
        up    == old.parent
        nodes == [t.node EXCEPT ![n] = below] \o <<new, made>>
    IN  [head |-> IF up = NullNode THEN fork ELSE t.head,
         node |-> IF up = NullNode THEN nodes
                  ELSE IF t.node[up].right = n THEN [nodes EXCEPT ![up].right = fork]
                  ELSE [nodes EXCEPT ![up].left = fork]]

(* Mutant: the node is not looked for above the leaf.                      *)
MutAbove(t, n, bit) == n

Above(t, n, bit) == Climb(t, n, bit)

CPTAddElement(t, address, netmask) ==
    LET a      == ConvertIPNetmask(address, netmask)
        bottom == CPTRetriveNode(t, a, t.head)
        differ == {i \in 1..IpBits : a[i] # t.node[bottom].prefix[i]}
        bit    == (CHOOSE i \in differ : \A j \in differ : i <= j) - 1
    IN  IF t.head = NullNode THEN CPTCreateHead(a, netmask)
        ELSE IF differ = {} THEN SamePrefix(t, bottom, netmask)
        ELSE InsertNetmask(Fork(t, Above(t, bottom, bit), bit, a, netmask),
                           Len(t.node) + 1, netmask)

-----------------------------------------------------------------------------
(* Looking an address up.                                                  *)

Listless(t) ==
    [m \in 0..Len(t.node) |->
        IF m = NullNode \/ t.node[m].list THEN m ELSE t.node[m].parent]

CPTRetriveParentNode(t, n) == Walk(Listless(t), n)

(* The list of a node, tried in order.  The address is cut to the first    *)
(* netmask only, and stays cut on the way up.                              *)
Cut(t, m, a) ==
    LET list == t.node[m].netmasks
    IN  IF list = << >> THEN a ELSE ConvertIPNetmask(a, list[1])

Listed(t, m, a) ==
    LET leaf == t.node[CPTRetriveNode(t, a, m)]
    IN  leaf.prefix = a /\ \E j \in 1..Len(t.node[m].netmasks) : leaf.data = t.node[m].netmasks[j]

(* The calls for one node after the other: what is left of the address,    *)
(* and where it is looked for next.                                        *)
Netblocks(t) ==
    [s \in (0..Len(t.node)) \X Address |->
        LET m == CPTRetriveParentNode(t, s[1])
            a == Cut(t, m, s[2])
        IN  IF m = NullNode \/ Listed(t, m, a) THEN s ELSE <<t.node[m].parent, a>>]

CPTFindElementIPNetblock(t, address, n) ==
    CPTRetriveParentNode(t, Walk(Netblocks(t), <<n, address>>)[1]) # NullNode

CPTFindElement(t, address) ==
    LET n == CPTRetriveNode(t, address, t.head)
    IN  /\ t.head # NullNode
        /\ \/ ~t.node[n].list /\ t.node[n].prefix = address /\ t.node[n].data = IpBits
           \/ CPTFindElementIPNetblock(t, address, n)

-----------------------------------------------------------------------------
InitIpTree ==
    /\ tree = CPTCreateRadixTree
    /\ added = << >>
    /\ unmade = FALSE

(* TreeAddIP: a netmask of no bits is an error, and ends the list.         *)
TreeAddIP(net) ==
    LET cut == [net EXCEPT !.address = ConvertIPNetmask(@, net.netmask)]
    IN  /\ ~unmade
        /\ IF net.netmask = 0
             THEN unmade' = TRUE /\ UNCHANGED <<tree, added>>
             ELSE /\ tree' = CPTAddElement(tree, net.address, net.netmask)
                  /\ added' = Append(added, cut)
                  /\ UNCHANGED unmade

NextIpTree == Len(added) < MaxNetworks /\ \E net \in Networks : TreeAddIP(net)

SpecIpTree == InitIpTree /\ [][NextIpTree]_ipVars

-----------------------------------------------------------------------------
StartsOnce(networks) ==
    \A i, j \in 1..Len(networks) : networks[i].address = networks[j].address => i = j

Within(a, net) == ConvertIPNetmask(a, net.netmask) = net.address

(* An address matches exactly when it is in a network of the list, as long *)
(* as no two networks of the list begin at the same address: then one is   *)
(* dropped, or a list of netmasks is zeroed and cuts the address away, and *)
(* @ipMatch misses addresses of the list or matches addresses of none.     *)
IpMatchIsExact ==
    StartsOnce(added) =>
        \A a \in Address :
            CPTFindElement(tree, a) <=> \E i \in 1..Len(added) : Within(a, added[i])
=============================================================================
