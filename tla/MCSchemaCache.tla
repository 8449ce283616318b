--------------------------- MODULE MCSchemaCache ---------------------------
(* Three struct types that share one another: an order has a buyer and an    *)
(* address, a buyer has an address.  And a list node that points to a node.  *)
EXTENDS SchemaCache

Field(name, kind, of) == [name |-> name, kind |-> kind, of |-> of]

ShopTypes == {"Order", "User", "Address"}
ShopFields ==
    [Order   |-> <<Field("ID", "scalar", "int"), Field("Buyer", "ptrStruct", "User"),
                   Field("Ship", "struct", "Address")>>,
     User    |-> <<Field("Home", "struct", "Address")>>,
     Address |-> <<Field("City", "ptrScalar", "string")>>]
ShopValues ==
    {[typ |-> "Order", nils |-> {}],
     [typ |-> "Order", nils |-> {<<"Buyer">>, <<"Ship", "City">>}],
     [typ |-> "User", nils |-> {<<"Home", "City">>}]}
ShopPaths ==
    {<<"ID">>, <<"Ship">>, <<"ID", "City">>, <<"Ship", "City">>,
     <<"Home", "City">>, <<"Buyer", "Home", "City">>}

ListTypes == {"Cell"}
ListFields == [Cell |-> <<Field("ID", "scalar", "int"), Field("Next", "ptrStruct", "Cell")>>]
ListValues == {[typ |-> "Cell", nils |-> {<<"Next">>}]}
ListPaths == {<<"ID">>}
=============================================================================
