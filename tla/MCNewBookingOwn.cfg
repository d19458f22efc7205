SPECIFICATION Spec
CONSTANTS
  Travelers = {"aminata", "foday"}
  Dates = {"monday"}
  Guests = {1, 2}
  Capacity = 2
  FirstDate = "monday"
  FirstGuests = 2
  MaxRequests = 2
INVARIANT ShownIsOwn
