\* Every client wscale option and the room left near the bottom and the top of the Window.
CONSTANTS
  ClientWscales = {0, 1, 7, 8, 14}
  Remainings <- MC_Remainings
SPECIFICATION Spec
INVARIANT AdvertisedWindowFitsRoom
