---------------------------- MODULE Restaurants -------------------------------
(***************************************************************************)
(* RestaurantsService for one restaurant, and how an order reads its door  *)
(* and its menu (FoodOrdersService.createOrder) before it is written.      *)
(* What happens to an order afterwards is in Jobs.                         *)
(***************************************************************************)
EXTENDS People, Naturals

CONSTANTS
    Item,    \* bound: menu items the owner adds
    Price    \* bound: their prices

ASSUME RestaurantsAssumption == None \notin Price

VARIABLES
    door,   \* restaurants: status, and isOpen
    menu,   \* menu_items: price (None: not there yet) and isAvailable
    desk    \* requests past a read: toggles, and orders with the lines priced so far

restaurantsVars == <<door, menu, desk>>

\* changed: what the request read has been changed since.
NoRequest == [op |-> "idle", open |-> FALSE, lines |-> <<>>, changed |-> FALSE]
DeskAt(c, op, open, lines) ==
    desk' = [desk EXCEPT ![c] = [@ EXCEPT !.op = op, !.open = open, !.lines = lines]]
\* Requests that read the door, or the item, before it changed.
DeskAfter(Read(_)) ==
    desk' = [c \in Call |-> IF Read(desk[c]) THEN [desk[c] EXCEPT !.changed = TRUE] ELSE desk[c]]
ReadTheDoor(r) == r.op # "idle"
ReadTheItem(r, i) == i \in DOMAIN r.lines

-----------------------------------------------------------------------------
\* createRestaurant; ownerId is unique.
CreateRestaurant ==
    /\ door.status = "none"
    /\ door' = [status |-> "PENDING", open |-> FALSE]
    /\ UNCHANGED <<menu, desk>>

\* toggleOpen reads,
ToggleOpen(c) ==
    /\ desk[c].op = "idle"
    /\ door.status = "APPROVED"
    /\ DeskAt(c, "toggle", ~door.open, <<>>)
    /\ UNCHANGED <<door, menu>>

\* and writes the opposite of what it read, whatever the status is by then.
WriteOpen(c) ==
    /\ desk[c].op = "toggle"
    /\ door' = [door EXCEPT !.open = desk[c].open]
    /\ desk' = [b \in Call |->
                  IF b = c THEN NoRequest
                  ELSE IF ReadTheDoor(desk[b]) THEN [desk[b] EXCEPT !.changed = TRUE] ELSE desk[b]]
    /\ UNCHANGED menu

\* approve, also of a suspended restaurant.
Approve ==
    /\ door.status # "none"
    /\ door' = [door EXCEPT !.status = "APPROVED"]
    /\ UNCHANGED <<menu, desk>>

Suspend ==
    /\ door.status # "none"
    /\ door' = [status |-> "SUSPENDED", open |-> FALSE]
    /\ DeskAfter(ReadTheDoor)
    /\ UNCHANGED menu

\* addMenuItem and updateMenuItem: the owner writes price and availability.
WriteMenuItem(i, price, available) ==
    /\ door.status # "none"
    /\ menu' = [menu EXCEPT ![i] = [price |-> price, available |-> available]]
    /\ DeskAfter(LAMBDA r : ReadTheItem(r, i))
    /\ UNCHANGED door

\* archiveMenuItem: no row is ever deleted.
ArchiveMenuItem(i) ==
    /\ menu[i].price # None
    /\ menu' = [menu EXCEPT ![i].available = FALSE]
    /\ DeskAfter(LAMBDA r : ReadTheItem(r, i))
    /\ UNCHANGED door

-----------------------------------------------------------------------------
\* createOrder's first check.
TakesOrders == door.status = "APPROVED" /\ door.open

CreateOrder(c) ==
    /\ desk[c].op = "idle"
    /\ TakesOrders
    /\ DeskAt(c, "menu", TRUE, <<>>)
    /\ UNCHANGED <<door, menu>>

\* Mutant: archived items can be ordered.
OnTheMenu(i) == menu[i].price # None
\* What createOrder asks of an item.
Orderable(i) == menu[i].price # None /\ menu[i].available

\* One query reads every item of the order; each line keeps the price it read.
PriceLines(c, items) ==
    /\ desk[c].op = "menu"
    /\ \A i \in items : Orderable(i)
    /\ DeskAt(c, "write", TRUE, [i \in items |-> menu[i].price])
    /\ UNCHANGED <<door, menu>>

\* The order and its lines are written, or refused, or the request fails.
RequestEnds(c) ==
    /\ desk[c].op # "idle"
    /\ desk' = [desk EXCEPT ![c] = NoRequest]
    /\ UNCHANGED <<door, menu>>

RestaurantsInit ==
    /\ door = [status |-> "none", open |-> FALSE]
    /\ menu = [i \in Item |-> [price |-> None, available |-> FALSE]]
    /\ desk = [c \in Call |-> NoRequest]

RestaurantsNext ==
    \/ CreateRestaurant \/ Approve \/ Suspend
    \/ \E c \in Call : ToggleOpen(c) \/ WriteOpen(c) \/ CreateOrder(c) \/ RequestEnds(c)
    \/ \E i \in Item, price \in Price, available \in BOOLEAN : WriteMenuItem(i, price, available)
    \/ \E i \in Item : ArchiveMenuItem(i)
    \/ \E c \in Call, items \in (SUBSET Item) \ {{}} : PriceLines(c, items)

RestaurantsSpec == RestaurantsInit /\ [][RestaurantsNext]_restaurantsVars

\* The order about to be written is one the customer could see: the restaurant is
\* approved and open, every item is on the menu at the price of its line, unless the
\* restaurant closed or the item changed while the order was being placed.
OrdersAreCurrent ==
    \A c \in Call :
        desk[c].op = "write" /\ ~desk[c].changed =>
            /\ door.status = "APPROVED" /\ door.open
            /\ \A i \in DOMAIN desk[c].lines :
                   menu[i].available /\ menu[i].price = desk[c].lines[i]
=============================================================================
