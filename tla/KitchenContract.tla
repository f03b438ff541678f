--------------------------- MODULE KitchenContract ---------------------------
(***************************************************************************)
(* The operations of the customer API as kitchen.gen.go and the handlers   *)
(* of transport/http/kitchen have them.  Of each operation:                *)
(*    Binds    the parameters its wrapper reads, and what it reads them as;*)
(*    Decodes  the body its strict handler reads;                          *)
(*    Writes   the statuses its response types can be written with, which  *)
(*             are those the API document declares;                        *)
(*    Reads    the statuses the generated client decodes;                  *)
(*    Served   who may call it, what it answers when it is carried out,    *)
(*             what it can fail with, and whether it changes the database. *)
(* The stream of an order is mounted beside the generated server; its      *)
(* Binds and Writes are those of the API document.                         *)
(***************************************************************************)
EXTENDS Contract

ClearCartBinds   == NoParameters
ClearCartDecodes == "nothing"
ClearCartWrites  == {204, 400, 500}
ClearCartReads   == {204, 400, 500}
ClearCartServed  == Handled("user", {204}, {}, TRUE)

GetCartBinds   == NoParameters
GetCartDecodes == "nothing"
GetCartWrites  == {200, 400, 500}
GetCartReads   == {200, 400, 500}
GetCartServed  == Handled("user", {200}, {}, FALSE)

PutCartItemBinds   == NoParameters
PutCartItemDecodes == "body"
PutCartItemWrites  == {200, 400, 404, 409, 500}
PutCartItemReads   == {200, 400, 404, 409, 500}
PutCartItemServed  == Handled("user", {200}, {"invalid", "not_found", "conflict"}, TRUE)

DeleteCartItemBinds   == [item_id |-> "uuid"]
DeleteCartItemDecodes == "nothing"
DeleteCartItemWrites  == {200, 400, 404, 500}
DeleteCartItemReads   == {200, 400, 404, 500}
DeleteCartItemServed  == Handled("user", {200}, {"not_found"}, TRUE)

ValidateCartBinds   == NoParameters
ValidateCartDecodes == "nothing"
ValidateCartWrites  == {200, 400, 500}
ValidateCartReads   == {200, 400, 500}
ValidateCartServed  == Handled("user", {200}, {}, FALSE)

ListCuisinesBinds   == NoParameters
ListCuisinesDecodes == "nothing"
ListCuisinesWrites  == {200, 500}
ListCuisinesReads   == {200, 500}
ListCuisinesServed  == Handled("anyone", {200}, {}, FALSE)

ListOrdersBinds   == [status |-> "text", cursor |-> "text", limit |-> "number"]
ListOrdersDecodes == "nothing"
ListOrdersWrites  == {200, 400, 500}
ListOrdersReads   == {200, 400, 500}
ListOrdersServed  == Handled("user", {200}, {"invalid"}, FALSE)

CreateOrderBinds   == [idempotency_key |-> "uuid"]
CreateOrderDecodes == "body"
CreateOrderWrites  == {200, 201, 400, 409, 422, 500}
CreateOrderReads   == {200, 201, 400, 409, 422, 500}
CreateOrderServed  == Handled("guarded", {201}, {"invalid", "conflict", "unprocessable"}, TRUE)

GetOrderBinds   == [order_id |-> "uuid"]
GetOrderDecodes == "nothing"
GetOrderWrites  == {200, 404, 500}
GetOrderReads   == {200, 404, 500}
GetOrderServed  == Handled("user", {200}, {"not_found"}, FALSE)

CancelOrderBinds   == [order_id |-> "uuid"]
CancelOrderDecodes == "optional"
CancelOrderWrites  == {200, 404, 409, 500}
CancelOrderReads   == {200, 404, 409, 500}
CancelOrderServed  == Handled("user", {200}, {"not_found", "transition"}, TRUE)

ListVenuesBinds   == [q |-> "text", cuisine |-> "text", open_now |-> "boolean", sort |-> "text", cursor |-> "text", limit |-> "number"]
ListVenuesDecodes == "nothing"
ListVenuesWrites  == {200, 400, 500}
ListVenuesReads   == {200, 400, 500}
ListVenuesServed  == Handled("anyone", {200}, {"invalid"}, FALSE)

GetVenueBinds   == [venue_id |-> "uuid"]
GetVenueDecodes == "nothing"
GetVenueWrites  == {200, 404, 500}
GetVenueReads   == {200, 404, 500}
GetVenueServed  == Handled("anyone", {200}, {"not_found"}, FALSE)

GetVenueMenuBinds   == [venue_id |-> "uuid"]
GetVenueMenuDecodes == "nothing"
GetVenueMenuWrites  == {200, 404, 500}
GetVenueMenuReads   == {200, 404, 500}
GetVenueMenuServed  == Handled("anyone", {200}, {"not_found"}, FALSE)

StreamOrderEventsBinds  == [order_id |-> "uuid"]
StreamOrderEventsWrites == {200, 404, 500}
StreamOrderEventsServed == Handled("user", {200}, {"not_found"}, FALSE)

KitchenOperations == [
   ClearCart         |-> Operation(ClearCartBinds, ClearCartDecodes, ClearCartWrites,
                                    ClearCartReads, ClearCartServed),
   GetCart           |-> Operation(GetCartBinds, GetCartDecodes, GetCartWrites,
                                    GetCartReads, GetCartServed),
   PutCartItem       |-> Operation(PutCartItemBinds, PutCartItemDecodes, PutCartItemWrites,
                                    PutCartItemReads, PutCartItemServed),
   DeleteCartItem    |-> Operation(DeleteCartItemBinds, DeleteCartItemDecodes, DeleteCartItemWrites,
                                    DeleteCartItemReads, DeleteCartItemServed),
   ValidateCart      |-> Operation(ValidateCartBinds, ValidateCartDecodes, ValidateCartWrites,
                                    ValidateCartReads, ValidateCartServed),
   ListCuisines      |-> Operation(ListCuisinesBinds, ListCuisinesDecodes, ListCuisinesWrites,
                                    ListCuisinesReads, ListCuisinesServed),
   ListOrders        |-> Operation(ListOrdersBinds, ListOrdersDecodes, ListOrdersWrites,
                                    ListOrdersReads, ListOrdersServed),
   CreateOrder       |-> Operation(CreateOrderBinds, CreateOrderDecodes, CreateOrderWrites,
                                    CreateOrderReads, CreateOrderServed),
   GetOrder          |-> Operation(GetOrderBinds, GetOrderDecodes, GetOrderWrites,
                                    GetOrderReads, GetOrderServed),
   CancelOrder       |-> Operation(CancelOrderBinds, CancelOrderDecodes, CancelOrderWrites,
                                    CancelOrderReads, CancelOrderServed),
   ListVenues        |-> Operation(ListVenuesBinds, ListVenuesDecodes, ListVenuesWrites,
                                    ListVenuesReads, ListVenuesServed),
   GetVenue          |-> Operation(GetVenueBinds, GetVenueDecodes, GetVenueWrites,
                                    GetVenueReads, GetVenueServed),
   GetVenueMenu      |-> Operation(GetVenueMenuBinds, GetVenueMenuDecodes, GetVenueMenuWrites,
                                    GetVenueMenuReads, GetVenueMenuServed),
   StreamOrderEvents |-> Operation(StreamOrderEventsBinds, "nothing", StreamOrderEventsWrites,
                                    StreamOrderEventsWrites, StreamOrderEventsServed)]
=============================================================================
