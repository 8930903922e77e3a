------------------------------- MODULE MCPull -------------------------------
(***************************************************************************)
(* Instances of Pull for TLC: entities 1 to 3, a CardOne name, CardMany    *)
(* tags, a CardOne and a CardMany reference.                               *)
(***************************************************************************)
EXTENDS Pull

CONSTANTS name, tag, boss, friend, gone, nick, s1, s2

MCAttrs == {name, tag, boss, friend}
MCMany == {tag, friend}
MCRefAttrs == {boss, friend}
MCRefs == 1..3

Row(e, a, v) == [e |-> e, a |-> a, v |-> v, tx |-> 1]

\* A ring of bosses with tags.
Ring == {Row(1, name, s1), Row(1, tag, s1), Row(1, tag, s2), Row(1, boss, 2),
         Row(2, name, s2), Row(2, boss, 1)}

\* The same entities with other values, and an attribute that is not cached.
Moved == {Row(1, name, s2), Row(1, tag, s2), Row(1, boss, 3), Row(1, gone, s1),
          Row(2, tag, s1), Row(3, name, s1), Row(3, boss, 3)}

\* Friends of one another.
Circle == {Row(1, name, s1), Row(1, friend, 2), Row(1, friend, 3),
           Row(2, friend, 1), Row(2, name, s1), Row(3, name, s2)}

MCTables == {Ring, Moved, Circle}
MCShown == {Ring, Circle}

All == [wildcard |-> TRUE, attrs |-> <<>>]
Named(pas) == [wildcard |-> FALSE, attrs |-> pas]
PAttr(a) == [ident |-> a, key |-> a, nested |-> NoPattern]
Alias(a, k) == [ident |-> a, key |-> k, nested |-> NoPattern]
Into(a, p) == [ident |-> a, key |-> a, nested |-> p]

Ask(eids, p) == [eids |-> eids, pattern |-> p]

\* Named attributes, twice the same entity, an alias, an unknown attribute;
\* references followed by name and by wildcard; wildcards around a circle.
MCRequests ==
    {Ask(<<1, 2>>, Named(<<PAttr(name), PAttr(gone), Alias(tag, nick)>>)),
     Ask(<<1>>, Named(<<Into(boss, Named(<<PAttr(tag), PAttr(name)>>)),
                        PAttr(tag), Into(name, All)>>)),
     Ask(<<2>>, Named(<<Into(boss, Named(<<Into(boss, Named(<<PAttr(tag)>>))>>)),
                        PAttr(name)>>)),
     Ask(<<1>>, Named(<<Into(friend, All), PAttr(name)>>)),
     Ask(<<1>>, Named(<<Into(boss, Named(<<Into(boss, Named(<<Into(boss,
                        Named(<<Into(boss, Named(<<PAttr(name)>>))>>))>>))>>))>>)),
     Ask(<<1, 1>>, All)}

RECURSIVE NestedIn(_)
NestedIn(p) ==
    {p} \cup UNION {NestedIn(pa.nested) :
                      pa \in {x \in ToSet(p.attrs) : x.nested # NoPattern}}

MCPatterns == UNION {NestedIn(q.pattern) : q \in MCRequests}

\* Named attributes of CardMany references: the friends of friends.
FriendRequests ==
    {Ask(<<1>>, Named(<<Into(friend, Named(<<PAttr(friend)>>))>>))}
FriendPatterns == UNION {NestedIn(q.pattern) : q \in FriendRequests}
FriendTables == {Circle}
=============================================================================
