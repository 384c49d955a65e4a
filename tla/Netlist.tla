------------------------------- MODULE Netlist -------------------------------
(***************************************************************************)
(* One run of the netlister of the Xorn tools (gaf/netlist): from the      *)
(* drawn pages to the nets of the whole hierarchy.                         *)
(*                                                                         *)
(* The pages are instantiated as sheets, once for each component that has  *)
(* them as its source.  The nets drawn on a page become one local net per  *)
(* sheet.  Net objects then gather local nets: first those with the same   *)
(* name (net.py), then those joined by a port of a subsheet and the pin of *)
(* the component that instantiates it (pp_hierarchy.py).  Ports and        *)
(* composite components disappear, components are grouped into packages,   *)
(* and the nets of unconnected pins are dropped.                           *)
(*                                                                         *)
(* An error message sets the flag "failed", and nothing is written then.   *)
(* "crashed" stands for any exception nobody catches: a failed assertion,  *)
(* a missing dictionary key, removing from a list what is not in it.       *)
(***************************************************************************)
EXTENDS Drawing, Lists

CONSTANTS
  Designs,   \* the designs explored, records of:
             \*   top       the file names on the command line
             \*   pages     the pages, by file name
             \*   traverse  descend into subsheets?
             \*   flat      flat[from_netattrib]: are names global?
             \*   flat_package  is the refdes global?
             \*   prefer    prefer_netname_attribute
  MaxDepth   \* bound: how deep sheets are nested

Points == Int \X Int

\* What reading a page makes sure of: coordinates are integers, other angles and
\* mirror flags are set to 0 (plainread.py:666), attributes are split into lists,
\* and a net= attribute names pins by their numbers.
IsObject(o, files) ==
  \/ o.kind = "segment" /\ o.ends \in Points \X Points /\ IsList(o.names)
  \/ /\ o.kind = "component"
     /\ o.origin \in Points /\ o.angle \in {0, 90, 180, 270} /\ o.mirror \in BOOLEAN
     /\ IsList(o.symbol.pins) /\ \A p \in ToSet(o.symbol.pins) : p.end \in Points
     /\ IsList(o.source) /\ ToSet(o.source) \subseteq files
     /\ IsList(o.net) /\ \A a \in ToSet(o.net) : a[2] \in Nat \ {0}

ASSUME DesignsAssumption ==
  \A d \in Designs :
    /\ {d.traverse, d.prefer} \subseteq BOOLEAN
    /\ IsList(d.top) /\ ToSet(d.top) \subseteq DOMAIN d.pages
    /\ \A f \in DOMAIN d.pages :
         IsList(d.pages[f]) /\ \A o \in ToSet(d.pages[f]) : IsObject(o, DOMAIN d.pages)

ASSUME DepthAssumption == MaxDepth \in Nat

VARIABLES
  design,      \* the design at hand
  pc,          \* the phase of the run
  drawn,       \* the nets of each page read, with their instances
  page_of,     \* the sheets, with the page each instantiates
  cpins,       \* the component pins, in the order of the components
  local_net,   \* the local net of each component pin
  todo,        \* the names of local nets yet to be looked at, per local net
  busy,        \* the local net looked at last
  net,         \* the Net objects, in the order of their creation
  nets,        \* netlist.nets
  net_of,      \* local_net.net, 0 for None
  net_dict,    \* the Net object for each name
  counter,     \* the next numbers for nets without a name
  components,  \* netlist.components
  on_sheet,    \* the components in sheet.components, for all sheets
  on_net,      \* the pins in local_net.cpins, for all local nets
  visit,       \* the composite components to resolve, and where we are
  failed       \* an error has been reported

namevars == <<todo, busy, net_dict, counter>>
netvars  == <<net, nets, net_of>>
partvars == <<components, on_sheet, on_net, visit>>
static   == <<design, drawn, page_of, cpins, local_net>>
vars == <<static, pc, namevars, netvars, partvars, failed>>

None   == ""    \* no attribute
NoName == <<>>  \* no net name; others are pairs of a text and a number

-----------------------------------------------------------------------------
(* The design: sheets, components and their pins                           *)

(* A sheet is the path to it: <<t>> for the t-th file on the command line,
   and s \o <<i, j>> for the j-th source of the i-th object on sheet s.  A
   component is the path of its sheet and its position on the page.         *)
SheetOf(c)       == Front(c)
Instantiating(s) == IF Len(s) = 1 THEN <<>> ELSE Front(s)

(* The order of lists in which a sheet comes before what is below it. *)
Before(a, b) ==
  \/ IsStrictPrefix(a, b)
  \/ \E k \in DOMAIN a \cap DOMAIN b :
       a[k] < b[k] /\ \A m \in 1 .. k - 1 : a[m] = b[m]

Page(f) == design.pages[f]

ObjectAt(pages, c) == design.pages[pages[SheetOf(c)]][Last(c)]
Object(c) == ObjectAt(page_of, c)

Graphical(o) == o.graphical
IsPort(o)    == o.portname # None
IsPower(o)   == o.netname # NoName

(* The sources that remain once conflicting kinds of components have been
   sorted out.                                                              *)
composite_sources(o) ==
  IF Graphical(o) \/ IsPort(o) \/ IsPower(o) THEN <<>> ELSE o.source

ComponentsOn(pages, s) ==
  LET page == design.pages[pages[s]]
  IN {Append(s, i) : i \in {j \in DOMAIN page : IsComponent(page, j)}}

(* The sheets that s_traverse_sheet1 makes for the sources of components on
   the given sheets.                                                        *)
Subsheets(pages) ==
  LET below(s) == UNION {{Append(c, j) : j \in DOMAIN composite_sources(ObjectAt(pages, c))} :
                           c \in ComponentsOn(pages, s)}
  IN [s \in UNION {below(t) : t \in DOMAIN pages} |->
        composite_sources(ObjectAt(pages, Front(s)))[Last(s)]]

\* Two maps in one; where both have an entry, they agree.
Both(f, g) == [x \in DOMAIN f \cup DOMAIN g |-> IF x \in DOMAIN f THEN f[x] ELSE g[x]]

Sheets ==
  LET f[d \in 0 .. MaxDepth] ==
        IF d = 0 THEN [s \in {<<t>> : t \in DOMAIN design.top} |-> design.top[s[1]]]
        ELSE Both(f[d - 1], Subsheets(f[d - 1]))
  IN f[IF design.traverse THEN MaxDepth ELSE 0]

(* collect_components: each component is followed by those below it. *)
Collected(pages) ==
  LET collect[s \in DOMAIN pages] ==
        LET page == design.pages[pages[s]]
            below(c) == FlattenSeq([j \in DOMAIN composite_sources(ObjectAt(pages, c)) |->
                          IF Append(c, j) \in DOMAIN pages THEN collect[Append(c, j)] ELSE <<>>])
        IN FlattenSeq([i \in DOMAIN page |->
             IF IsComponent(page, i) THEN <<Append(s, i)>> \o below(Append(s, i)) ELSE <<>>])
  IN FlattenSeq([t \in DOMAIN design.top |-> collect[<<t>>]])

SubsheetsOf(c) == {s \in DOMAIN page_of : Len(s) > 1 /\ Front(s) = c}

(* Pin k of a component: a pin of its symbol, or, with -k, the artificial pin
   number k made for a net= attribute.                                      *)
Artificial(o) ==
  LET numbers == AddedAll(<<>>, [a \in DOMAIN o.net |-> -o.net[a][2]])
  IN Filtered(numbers, {k \in ToSet(numbers) :
                          \A m \in DOMAIN o.symbol.pins : o.symbol.pins[m].number # -k})

(* The pins that become component pins: bus pins are ignored. *)
PinsOf(o) ==
  LET pins == o.symbol.pins
  IN Filtered([k \in DOMAIN pins |-> k], {k \in DOMAIN pins : ~pins[k].is_bus}) \o Artificial(o)

\* pins_by_number knows the bus pins, too.
AllPins(o) == DOMAIN o.symbol.pins \cup ToSet(Artificial(o))

Number(o, k) == IF k < 0 THEN -k ELSE o.symbol.pins[k].number
Label(o, k)  == IF k < 0 THEN None ELSE o.symbol.pins[k].label

(* The nets of a page: those drawn, and one for each artificial pin. *)
PageNets(f) ==
  drawn[f] \cup UNION {{{<<i, k>>} : k \in ToSet(Artificial(Page(f)[i]))} :
                         i \in {j \in DOMAIN Page(f) : IsComponent(Page(f), j)}}

-----------------------------------------------------------------------------
(* Names                                                                   *)

(* The names a net of the page gets from the netname= attributes of its
   segments, and from net= attributes and power symbols.                    *)
names(page, V) ==
  LET of(i) == IF <<i, 0>> \in V THEN page[i].names ELSE <<>>
  IN FlattenSeq([i \in DOMAIN page |-> of(i)])

(* The first pin with a number is the one that net= attributes mean. *)
Means(o, k, number) ==
  /\ Number(o, k) = number
  /\ \A m \in 1 .. k - 1 : o.symbol.pins[m].number # number

names_from_net_attribute(page, V) ==
  LET power(i) ==
        IF IsComponent(page, i) /\ IsPower(page[i])
        THEN LET pins == page[i].symbol.pins
                 mine == Filtered([k \in DOMAIN pins |-> k], {k \in DOMAIN pins : <<i, k>> \in V})
             IN [n \in DOMAIN mine |-> page[i].netname]
        ELSE <<>>
      attached(i) ==
        IF IsComponent(page, i)
        THEN LET mine == Filtered(page[i].net,
                           {a \in ToSet(page[i].net) : \E k \in AllPins(page[i]) :
                              <<i, k>> \in V /\ Means(page[i], k, a[2])})
             IN [n \in DOMAIN mine |-> mine[n][1]]
        ELSE <<>>
  IN FlattenSeq([i \in DOMAIN page |-> power(i)])
       \o FlattenSeq([i \in DOMAIN page |-> attached(i)])

Wanted(page, V) ==
  LET tagged(l, from) == [n \in DOMAIN l |-> [name |-> l[n], from |-> from]]
  IN tagged(names(page, V), FALSE) \o tagged(names_from_net_attribute(page, V), TRUE)

(* The key of a name in net_dict: names are local to the component that
   instantiates the sheet, unless they are global.                          *)
Key(s, name, from_netattrib) ==
  <<IF design.flat[from_netattrib] THEN <<>> ELSE Instantiating(s), name>>

(* What the checks of single pages report as an error: attributes that
   exclude each other, pins that are missing, too many or without a number,
   and components that nothing identifies.                                  *)
Wrong(o) ==
  LET special == IsPort(o) \/ IsPower(o)
      n       == Len(o.symbol.pins)
      number(k) == o.symbol.pins[k].number
  IN \/ special /\ (o.refdes # None \/ o.net # <<>> \/ n # 1)
     \/ IsPort(o) /\ IsPower(o)
     \/ special /\ (Graphical(o) \/ o.source # <<>>)
     \/ ~special /\ \E k \in 1 .. n : number(k) = 0
     \/ o.source = <<>> /\ \E k, m \in 1 .. n : k # m /\ number(k) = number(m) /\ number(k) # 0
     \/ \E a, b \in DOMAIN o.net : a # b /\ o.net[a][2] = o.net[b][2]
     \/ o.refdes = None /\ ~special /\ ~Graphical(o) /\ o.net = <<>>

-----------------------------------------------------------------------------
(* Reading the pages                                                       *)

Mixed(page) == \E V \in Nets(page) : ~Uniform(page, V)

(* Read the schematics: the drawn nets of each page, and what is wrong with
   its components.  blueprint.Net asserts that no net is drawn of both nets
   and buses.                                                               *)
Read ==
  /\ pc = "read"
  /\ drawn' = [f \in DOMAIN design.pages |-> Nets(Page(f))]
  /\ pc' = IF \A f \in DOMAIN drawn' : \A V \in drawn'[f] : Uniform(Page(f), V)
           THEN "instantiate" ELSE "crashed"
  /\ failed' = (pc' = "instantiate" /\ \E f \in DOMAIN design.pages :
                  \E i \in DOMAIN Page(f) : IsComponent(Page(f), i) /\ Wrong(Page(f)[i]))
  /\ UNCHANGED <<design, page_of, cpins, local_net, namevars, netvars, partvars>>

(* Make the sheets, with a local net for each net of their page, and for each
   artificial pin.                                                          *)
Instantiate ==
  /\ pc = "instantiate"
  /\ page_of' = Sheets
  /\ components' = Collected(page_of')
  /\ cpins' = FlattenSeq([n \in DOMAIN components' |->
                 LET c == components'[n]
                     l == PinsOf(ObjectAt(page_of', c))
                 IN [k \in DOMAIN l |-> <<c, l[k]>>]])
  /\ LET lns == UNION {{<<s, V>> : V \in PageNets(page_of'[s])} : s \in DOMAIN page_of'}
         around(p) == {ln \in lns : ln[1] = SheetOf(p[1]) /\ <<Last(p[1]), p[2]>> \in ln[2]}
         wanted(ln) == Wanted(Page(page_of'[ln[1]]), ln[2])
     IN /\ pc' = IF \A p \in ToSet(cpins') : around(p) # {} THEN "name" ELSE "crashed"
        /\ local_net' = IF pc' = "crashed" THEN local_net
                        ELSE [p \in ToSet(cpins') |-> CHOOSE ln \in around(p) : TRUE]
        /\ net_of' = [ln \in lns |-> 0]
        /\ todo' = [ln \in {m \in lns : wanted(m) # <<>>} |-> wanted(ln)]
  /\ on_sheet' = ToSet(components')
  /\ on_net' = DOMAIN local_net'
  /\ UNCHANGED <<design, drawn, busy, net_dict, counter, net, nets, visit, failed>>

-----------------------------------------------------------------------------
(* Net objects                                                             *)

NewNet == [names |-> [from \in BOOLEAN |-> <<>>], local_nets |-> {}, name |-> NoName,
           is_unconnected_pin |-> FALSE, component_pins |-> {}, connections |-> {}]

(* faulty variant: the names of the net that goes are forgotten *)
MergedWithoutNames(n, src, dst) ==
  [n EXCEPT ![dst].local_nets = @ \cup n[src].local_nets,
            ![src].local_nets = {}, ![src].names = NewNet.names]

(* Net.merge_into, as far as the objects src and dst go. *)
Merged(n, src, dst) ==
  [n EXCEPT ![dst].local_nets = @ \cup n[src].local_nets,
            ![dst].names = [from \in BOOLEAN |-> AddedAll(@[from], n[src].names[from])],
            ![src].local_nets = {}, ![src].names = NewNet.names]

(* faulty variant: only the local net seen last is moved *)
MovedLast(n, src, dst) ==
  [m \in DOMAIN net_of |->
     IF m \in n[src].local_nets /\ \A k \in n[src].local_nets : ~Before(m[1], k[1])
     THEN dst ELSE net_of[m]]

(* Net.merge_into: the local nets of src now belong to dst. *)
Moved(n, src, dst) ==
  [m \in DOMAIN net_of |-> IF m \in n[src].local_nets THEN dst ELSE net_of[m]]

AllNames(n) == ToSet(n.names[FALSE]) \cup ToSet(n.names[TRUE])

-----------------------------------------------------------------------------
(* Joining local nets by name                                              *)

(* The local net whose names are looked at next: the one begun, or any in the
   first sheet that has some left.                                          *)
Upcoming ==
  IF busy \in DOMAIN todo THEN {busy}
  ELSE {ln \in DOMAIN todo : \A m \in DOMAIN todo : ~Before(m[1], ln[1])}

Entered(dict, key, n) ==
  [k \in DOMAIN dict \cup {key} |-> IF k = key THEN n ELSE dict[k]]

(* Net.merge_into looks up the names of the net that goes. *)
Mergeable(n, src, dict) == \A k \in AllNames(n[src]) : k \in DOMAIN dict /\ dict[k] = src

Index(l, x) == SelectInSeq(l, LAMBDA y : y = x)

(* Of nets a and b in list l, which one goes and which one takes over. *)
IntoEarlier(a, b, l) == IF Index(l, a) < Index(l, b) THEN <<b, a>> ELSE <<a, b>>

(* One turn of the loop in net.postproc_instances: look at the next name of
   ln.  Its net is looked up or made, and ln is put into it; if ln is in
   another one, the two become one.                                         *)
NameLocalNet(ln) ==
  LET w     == Head(todo[ln])
      key   == Key(ln[1], w.name, w.from)
      known == key \in DOMAIN net_dict
      b     == IF known THEN net_dict[key] ELSE Len(net) + 1
      a     == net_of[ln]
      l     == IF known THEN nets ELSE Append(nets, b)
      dict  == Entered(net_dict, key, b)
      made  == IF known THEN net ELSE Append(net, NewNet)
      n     == [made EXCEPT ![b].names[w.from] = AddedOnce(@, key)]
  IN /\ pc = "name"
     /\ ln \in Upcoming
     /\ busy' = ln
     /\ todo' = IF Len(todo[ln]) = 1 THEN Restrict(todo, DOMAIN todo \ {ln})
                ELSE [todo EXCEPT ![ln] = Tail(@)]
     /\ \/ /\ a = b
           /\ net' = n
           /\ UNCHANGED <<nets, net_of, net_dict, pc>>
        \/ /\ a = 0
           /\ net' = [n EXCEPT ![b].local_nets = @ \cup {ln}]
           /\ net_of' = [net_of EXCEPT ![ln] = b]
           /\ nets' = l
           /\ net_dict' = dict
           /\ UNCHANGED pc
        \/ /\ a \notin {0, b}
           /\ LET src == IntoEarlier(a, b, l)[1]
                  dst == IntoEarlier(a, b, l)[2]
              IN /\ net' = Merged(n, src, dst)
                 /\ net_of' = Moved(n, src, dst)
                 /\ nets' = Removing(l, src)
                 /\ net_dict' = [k \in DOMAIN dict |->
                                   IF k \in AllNames(n[src]) THEN dst ELSE dict[k]]
                 /\ pc' = IF Mergeable(n, src, dict) THEN pc ELSE "crashed"
     /\ UNCHANGED <<static, counter, partvars, failed>>

(* Each net is called by one of its names, preferably one from net=
   attributes unless the user prefers netname=.                             *)
ChooseNames ==
  /\ pc = "name"
  /\ todo = <<>>
  /\ LET prio == ~design.prefer
         called(n) == IF n.names[prio] # <<>> THEN Last(n.names[prio])
                      ELSE Last(n.names[~prio])
     IN /\ pc' = IF \A i \in ToSet(nets) : AllNames(net[i]) # {} THEN "number" ELSE "crashed"
        /\ net' = IF pc' = "crashed" THEN net
                  ELSE [i \in DOMAIN net |->
                          IF i \in ToSet(nets) THEN [net[i] EXCEPT !.name = called(net[i])]
                                               ELSE net[i]]
  /\ UNCHANGED <<static, namevars, nets, net_of, partvars, failed>>

-----------------------------------------------------------------------------
(* Nets without a name                                                     *)

(* The name of a net on sheet s that has none of its own. *)
Numbered(s, text, i) == Key(s, <<text, i>>, FALSE)

(* faulty variant: names in use are not avoided *)
FirstUnused(s, text) == counter[text]

(* The number, counting on, that gives a name not in use. *)
FirstFree(s, text) ==
  CHOOSE n \in counter[text] .. counter[text] + Cardinality(DOMAIN net_dict) :
    /\ Numbered(s, text, n) \notin DOMAIN net_dict
    /\ \A m \in counter[text] .. n - 1 : Numbered(s, text, m) \in DOMAIN net_dict

(* A net drawn as nothing but one pin. *)
Dangling(ln) == Cardinality(ln[2]) = 1 /\ \A a \in ln[2] : a[2] # 0

Unnamed == {i \in DOMAIN cpins : net_of[local_net[cpins[i]]] = 0}

(* The next pin, in the order of components, whose local net is in no net
   yet: it gets one of its own, with a name nobody uses.                    *)
NumberNet ==
  /\ pc = "number"
  /\ \E first \in Unnamed :
     /\ \A i \in Unnamed : first <= i
     /\ LET p    == cpins[first]
            ln   == local_net[p]
            text == IF Dangling(ln) THEN "unconnected_pin-" ELSE "unnamed_net"
            i    == FirstFree(SheetOf(p[1]), text)
            key  == Numbered(SheetOf(p[1]), text, i)
        IN /\ net' = Append(net, [NewNet EXCEPT !.local_nets = {ln}, !.name = key,
                                                !.is_unconnected_pin = Dangling(ln)])
           /\ nets' = Append(nets, Len(net) + 1)
           /\ net_of' = [net_of EXCEPT ![ln] = Len(net) + 1]
           /\ net_dict' = Entered(net_dict, key, Len(net) + 1)
           /\ counter' = [counter EXCEPT ![text] = i + 1]
  /\ UNCHANGED <<static, pc, todo, busy, partvars, failed>>

NetOf(p) == net_of[local_net[p]]

Composites ==
  Filtered(components, {c \in ToSet(components) : composite_sources(Object(c)) # <<>>})

(* With all pins in nets, the nets are listed in the order of the pins, which
   drops the nets without pins, and get their lists of component pins.      *)
CollectPins ==
  /\ pc = "number"
  /\ Unnamed = {}
  /\ LET pins(n) == {p \in DOMAIN local_net : NetOf(p) = n}
         l == AddedAll(<<>>, [i \in DOMAIN cpins |-> NetOf(cpins[i])])
     IN IF ToSet(l) = {n \in ToSet(nets) : pins(n) # {}}
        THEN /\ pc' = "hierarchy"
             /\ nets' = l
             /\ net' = [n \in DOMAIN net |-> [net[n] EXCEPT !.component_pins = pins(n)]]
             /\ visit' = [visit EXCEPT !.composites = Composites]
        ELSE pc' = "crashed" /\ UNCHANGED <<nets, net, visit>>
  /\ UNCHANGED <<static, namevars, net_of, components, on_sheet, on_net, failed>>

-----------------------------------------------------------------------------
(* Resolving the hierarchy                                                 *)

(* visit: the composite components to come, and of the first one the pins to
   come, the labels seen, the components on its subsheets when it was begun,
   and the ports to be joined to the net of the current pin.                *)
NotBegun == [composites |-> <<>>, begun |-> FALSE, pins |-> <<>>, labels |-> {},
             candidates |-> {}, ports |-> <<>>, dest |-> 0, removed |-> {}]

Composite == Head(visit.composites)

PinsOfComponent(c) == Filtered(cpins, {p \in ToSet(cpins) : p[1] = c})

BeginComposite ==
  /\ pc = "hierarchy"
  /\ visit.composites # <<>> /\ ~visit.begun
  /\ visit' = [visit EXCEPT
        !.begun = TRUE,
        !.pins = PinsOfComponent(Composite),
        !.labels = {},
        !.candidates = {c \in on_sheet : SheetOf(c) \in SubsheetsOf(Composite)}]
  /\ UNCHANGED <<static, pc, namevars, netvars, components, on_sheet, on_net, failed>>

(* The ports for a label: those with portname=, and old-style ones which have
   it as their refdes=.                                                     *)
NewPorts(label) ==
  Filtered(components, {c \in ToSet(components) :
    SheetOf(c) \in SubsheetsOf(Composite) /\ Object(c).portname = label})

OldPorts(label) ==
  Filtered(components, {c \in visit.candidates : Object(c).refdes = label})

Usable(c) == Len(PinsOfComponent(c)) = 1

(* faulty variant: one old-style port is enough *)
FirstPort(label) ==
  NewPorts(label)
    \o LET old == Filtered(OldPorts(label), {c \in visit.candidates : Usable(c)})
       IN IF old = <<>> THEN old ELSE <<Head(old)>>

PortsFor(label) ==
  NewPorts(label) \o Filtered(OldPorts(label), {c \in visit.candidates : Usable(c)})

WrongPort(c) ==
  \/ IsPower(Object(c)) \/ Object(c).net # <<>> \/ Graphical(Object(c))
  \/ composite_sources(Object(c)) # <<>> \/ ~Usable(c)

WithoutPin(n, dst, p) == [n EXCEPT ![dst].component_pins = @ \ {p}]

(* The next pin of the composite component leaves its net, and the ports of
   its label are looked up.                                                 *)
ResolvePin ==
  LET p     == Head(visit.pins)
      dest  == NetOf(p)
      label == Label(Object(p[1]), p[2])
      bad   == label = None \/ label \in visit.labels
  IN /\ pc = "hierarchy" /\ visit.begun
     /\ visit.ports = <<>> /\ visit.pins # <<>>
     /\ IF /\ p \in on_net
           /\ p \in net[dest].component_pins
           /\ bad \/ ToSet(NewPorts(label)) \subseteq on_sheet
        THEN /\ pc' = pc
             /\ on_net' = on_net \ {p}
             /\ net' = WithoutPin(net, dest, p)
             /\ visit' = [visit EXCEPT
                   !.pins = Tail(@),
                   !.dest = dest,
                   !.labels = IF label = None THEN @ ELSE @ \cup {label},
                   !.ports = IF bad THEN <<>> ELSE PortsFor(label)]
             /\ failed' = (failed \/ bad \/ \E c \in ToSet(OldPorts(label)) : WrongPort(c))
        ELSE pc' = "crashed" /\ UNCHANGED <<on_net, net, visit, failed>>
     /\ UNCHANGED <<static, namevars, nets, net_of, components, on_sheet>>

(* faulty variant: the pins of the net that goes are not taken along *)
JoinedWithoutPins(n, src, dst) == Merged(n, src, dst)

(* Net.merge_into, followed by moving the component pins. *)
Joined(n, src, dst) ==
  [Merged(n, src, dst) EXCEPT
     ![dst].component_pins = @ \cup n[src].component_pins, ![src].component_pins = {}]

(* The next of these ports: its net becomes one with that of the pin, and the
   port is removed.                                                         *)
JoinPort ==
  LET c    == Head(visit.ports)
      p    == Head(PinsOfComponent(c))
      src  == NetOf(p)
      dest == visit.dest
      n    == IF src = dest THEN net ELSE Joined(net, src, dest)
  IN /\ pc = "hierarchy" /\ visit.ports # <<>>
     /\ IF /\ PinsOfComponent(c) # <<>>
           /\ src = dest \/ src \in ToSet(nets)
           /\ c \in on_sheet
           /\ p \in on_net
           /\ p \in n[dest].component_pins
        THEN /\ pc' = pc
             /\ net' = WithoutPin(n, dest, p)
             /\ nets' = IF src = dest THEN nets ELSE Removing(nets, src)
             /\ net_of' = IF src = dest THEN net_of ELSE Moved(net, src, dest)
             /\ on_sheet' = on_sheet \ {c}
             /\ on_net' = on_net \ {p}
             /\ visit' = [visit EXCEPT !.ports = Tail(@), !.removed = @ \cup {c}]
        ELSE pc' = "crashed" /\ UNCHANGED <<netvars, on_sheet, on_net, visit>>
     /\ UNCHANGED <<static, namevars, components, failed>>

(* All pins of the composite component are done: it is removed, too. *)
EndComposite ==
  /\ pc = "hierarchy" /\ visit.begun
  /\ visit.ports = <<>> /\ visit.pins = <<>>
  /\ pc' = IF Composite \in on_sheet THEN pc ELSE "crashed"
  /\ on_sheet' = on_sheet \ {Composite}
  /\ visit' = [NotBegun EXCEPT !.composites = Tail(visit.composites),
                               !.removed = visit.removed \cup {Composite}]
  /\ UNCHANGED <<static, namevars, netvars, components, on_net, failed>>

EndHierarchy ==
  /\ pc = "hierarchy"
  /\ visit.composites = <<>>
  /\ pc' = "package"
  /\ components' = Filtered(components, ToSet(components) \ visit.removed)
  /\ failed' = (failed \/ \E c \in ToSet(components') : IsPort(Object(c)))
  /\ visit' = NotBegun
  /\ UNCHANGED <<static, namevars, netvars, on_sheet, on_net>>

-----------------------------------------------------------------------------
(* Packages                                                                *)

(* The pin of a package that a component pin is: packages are told apart by
   their refdes, within the component that instantiates the sheet.          *)
PackagePin(p) ==
  LET o == Object(p[1])
  IN [namespace |-> IF design.flat_package THEN <<>> ELSE Instantiating(SheetOf(p[1])),
      refdes |-> o.refdes, number |-> Number(o, p[2])]

HasRefdes(p) == Object(p[1]).refdes # None

Packaged == {p \in DOMAIN local_net : p[1] \in ToSet(components) /\ HasRefdes(p)}

(* Remove graphical components, group the others into packages, and list the
   package pins on each net.                                                *)
Package ==
  /\ pc = "package"
  /\ LET pictures == {c \in ToSet(components) : Graphical(Object(c))}
         gone == {p \in DOMAIN local_net : p[1] \in pictures}
     IN /\ components' = Filtered(components, ToSet(components) \ pictures)
        /\ on_sheet' = on_sheet \ pictures
        /\ on_net' = on_net \ gone
        /\ LET packaged == {p \in DOMAIN local_net : p[1] \in ToSet(components') /\ HasRefdes(p)}
               pins(n)  == {p \in net[n].component_pins \ gone : HasRefdes(p)}
               ppins    == {PackagePin(p) : p \in packaged}
           IN /\ pc' = IF /\ \A p \in gone : p \in on_net /\ p \in net[NetOf(p)].component_pins
                          /\ \A n \in ToSet(nets) : \A p \in pins(n) : PackagePin(p) \in ppins
                       THEN "drop" ELSE "crashed"
              /\ net' = [n \in DOMAIN net |->
                           [net[n] EXCEPT !.component_pins = @ \ gone,
                                          !.connections = {PackagePin(p) : p \in pins(n)}]]
              /\ failed' = (failed \/ \E p, q \in packaged :
                                PackagePin(p) = PackagePin(q) /\ NetOf(p) # NetOf(q))
  /\ UNCHANGED <<static, namevars, nets, net_of, visit>>

(* faulty variant: nets of unconnected pins go even if ports joined others *)
DroppedAll(n) == n.is_unconnected_pin

Dropped(n) == n.is_unconnected_pin /\ Cardinality(n.connections) <= 1

(* Remove the nets for unconnected pins, but not those that several package
   pins are connected to through ports.                                     *)
DropUnconnected ==
  /\ pc = "drop"
  /\ pc' = "done"
  /\ nets' = Filtered(nets, {n \in ToSet(nets) : ~Dropped(net[n])})
  /\ net' = [n \in DOMAIN net |-> [net[n] EXCEPT !.is_unconnected_pin = Dropped(net[n])]]
  /\ UNCHANGED <<static, namevars, net_of, partvars, failed>>

Finished == pc \in {"done", "crashed"} /\ UNCHANGED vars

-----------------------------------------------------------------------------
Init ==
  /\ design \in Designs
  /\ pc = "read"
  /\ drawn = <<>> /\ page_of = <<>> /\ cpins = <<>> /\ local_net = <<>>
  /\ todo = <<>> /\ busy = NoName /\ net_dict = <<>>
  /\ counter = [text \in {"unconnected_pin-", "unnamed_net"} |-> 1]
  /\ net = <<>> /\ nets = <<>> /\ net_of = <<>>
  /\ components = <<>> /\ on_sheet = {} /\ on_net = {} /\ visit = NotBegun
  /\ failed = FALSE

Next ==
  \/ Read
  \/ Instantiate
  \/ \E ln \in DOMAIN todo : NameLocalNet(ln)
  \/ ChooseNames
  \/ NumberNet
  \/ CollectPins
  \/ BeginComposite
  \/ ResolvePin
  \/ JoinPort
  \/ EndComposite
  \/ EndHierarchy
  \/ Package
  \/ DropUnconnected
  \/ Finished

Spec == Init /\ [][Next]_vars

-----------------------------------------------------------------------------
(* What the drawings mean, for comparison                                  *)

(* Is p on net instance a?  Only its ends are, if it is a pin or askew. *)
Covers(page, a, p) ==
  LET e == DataOf(page, a).ends
  IN \/ p \in Ends(page, a)
     \/ /\ ~IsPin(page, a)
        /\ \E k \in 1 .. 2 : e[1][k] = e[2][k]
        /\ \A k \in 1 .. 2 : (e[1][k] - p[k]) * (e[2][k] - p[k]) <= 0

Touch(page, a, b) ==
  /\ IsBus(page, a) = IsBus(page, b)
  /\ \/ \E p \in Ends(page, a) : Covers(page, b, p)
     \/ \E p \in Ends(page, b) : Covers(page, a, p)

(* The instances grouped by chains of touching ones. *)
TouchingGroups(page) ==
  Grouped(Instances(page),
          {ab \in Instances(page) \X Instances(page) : Touch(page, ab[1], ab[2])})

SamePinTouches(page) ==
  \E a, b \in Instances(page) :
    a # b /\ ObjectOf(page, a) = ObjectOf(page, b) /\ Touch(page, a, b)

(* The names of a local net, in their namespaces. *)
KeysOf(ln) ==
  LET l == Wanted(Page(page_of[ln[1]]), ln[2])
  IN {Key(ln[1], l[n].name, l[n].from) : n \in DOMAIN l}

PortLabel(o) == IF IsPort(o) THEN o.portname ELSE o.refdes

Above(p, q) ==
  /\ Instantiating(SheetOf(p[1])) = q[1]
  /\ composite_sources(Object(q[1])) # <<>>
  /\ Label(Object(q[1]), q[2]) # None
  /\ PortLabel(Object(p[1])) = Label(Object(q[1]), q[2])

(* Pairs of local nets that are directly linked: by a name in common, or by a
   port of a subsheet and the pin of the same label on the component above. *)
LinkedNets ==
  LET named == UNION {{<<ln, k>> : k \in KeysOf(ln)} : ln \in DOMAIN net_of}
      above == {pq \in (DOMAIN local_net) \X (DOMAIN local_net) : Above(pq[1], pq[2])}
  IN {<<ab[1][1], ab[2][1]>> : ab \in {x \in named \X named : x[1][2] = x[2][2]}}
       \cup {<<local_net[pq[1]], local_net[pq[2]]>> : pq \in above}

(* A page with an I/O symbol that has a bus pin. *)
BusPort(page) ==
  \E i \in DOMAIN page :
    /\ IsComponent(page, i) /\ IsPort(page[i])
    /\ \E k \in DOMAIN page[i].symbol.pins : page[i].symbol.pins[k].is_bus

Netlisted == pc = "done" /\ ~failed

-----------------------------------------------------------------------------
(* Properties                                                              *)

TypeOK ==
  /\ pc \in {"read", "instantiate", "name", "number", "hierarchy", "package", "drop", "done", "crashed"}
  /\ \A n \in DOMAIN net : net[n].local_nets \subseteq DOMAIN net_of
                           /\ net[n].component_pins \subseteq DOMAIN local_net
  /\ ToSet(nets) \subseteq DOMAIN net /\ IsInjective(nets)
  /\ \A ln \in DOMAIN net_of : net_of[ln] \in 0 .. Len(net)
  /\ \A k \in DOMAIN net_dict : net_dict[k] \in DOMAIN net
  /\ on_sheet \cup ToSet(components) \subseteq
       UNION {ComponentsOn(page_of, s) : s \in DOMAIN page_of}
  /\ on_net \subseteq DOMAIN local_net
  /\ failed \in BOOLEAN

(* What the assertions in net.py count on until all nets have names: a name
   leads to the one net that lists it, which is still in netlist.nets, and
   local_net.net and net.local_nets agree, whatever has been merged.        *)
DictExact ==
  pc \in {"name", "number"} =>
    /\ \A k \in DOMAIN net_dict :
         /\ net_dict[k] \in ToSet(nets)
         /\ k \in AllNames(net[net_dict[k]]) \cup {net[net_dict[k]].name}
    /\ \A n \in DOMAIN net : \A k \in AllNames(net[n]) : net_dict[k] = n
    /\ \A n \in DOMAIN net : net[n].local_nets = {ln \in DOMAIN net_of : net_of[ln] = n}

(* "Return all connections of a net instance" (conn.py:130): the instances in
   one net of a page are exactly those that a chain of touching segments and
   pins links, unless the same pin of two components of one symbol touches. *)
DrawnTogether ==
  pc = "instantiate" =>
    \A f \in DOMAIN drawn :
      SamePinTouches(Page(f)) \/ drawn[f] = TouchingGroups(Page(f))

(* The same without the exception: "searches for all geometrical conections
   of the net instance (path, ob) to all other connectable objects"
   (conn.py:132).                                                           *)
TouchingJoined ==
  pc = "instantiate" => \A f \in DOMAIN drawn : drawn[f] = TouchingGroups(Page(f))

(* A netlist without errors joins exactly the pins that are linked through
   drawn nets, names in the right namespaces, and ports, however the merging
   of net.py and pp_hierarchy.py came about: no connection is lost and there
   are no shorts.                                                           *)
JoinedExactly ==
  Netlisted =>
    \A V \in Grouped(DOMAIN net_of, LinkedNets) : \A p, q \in Packaged :
      local_net[p] \in V => (local_net[q] \in V <=> NetOf(p) = NetOf(q))

(* A net of the result lists exactly the package pins on it, none of a removed
   component; and a net that joins two of them is not among those dropped as
   unconnected (netlist.py:333-341).                                         *)
ConnectionsExact ==
  Netlisted =>
    /\ \A n \in ToSet(nets) :
         net[n].connections = {PackagePin(p) : p \in {q \in Packaged : NetOf(q) = n}}
    /\ \A p, q \in Packaged :
         NetOf(p) = NetOf(q) /\ PackagePin(p) # PackagePin(q) => NetOf(p) \in ToSet(nets)

(* No two nets of the result have the same name in the same namespace. *)
NamesUnique ==
  pc \in {"hierarchy", "package", "drop", "done"} =>
    \A m, n \in ToSet(nets) : net[m].name = net[n].name => m = n

(* The netlister ends with an exception only after it has reported an error,
   unless a net ends in the middle of a bus, which conn.py allows and the
   assertion at blueprint.py:425 does not, or an I/O symbol has a bus pin,
   which passes for its pin (pp_hierarchy.py:42) but is no component pin that
   could be joined (pp_hierarchy.py:133).                                     *)
CrashOnlyAfterError ==
  pc = "crashed" =>
    failed \/ \E f \in DOMAIN design.pages : Mixed(Page(f)) \/ BusPort(Page(f))

(* A local net never leaves the Net object it shares with another: joining
   is never undone.                                                         *)
JoinedForGood ==
  [][pc \notin {"read", "instantiate"} =>
       \A a, b \in DOMAIN net_of :
         net_of[a] # 0 /\ net_of[a] = net_of[b] => net_of'[a] = net_of'[b]]_vars
=============================================================================
