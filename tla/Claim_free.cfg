SPECIFICATION Spec
CONSTANTS
  low = low
  mid = mid
  top = top
  idle = idle
  uart = uart
  gpio = gpio
  log = log
  Handlers = {low, mid, top}
  Thread = idle
  Applications <- Apps
  Vector <- Vectors
  Resources = {uart, gpio, log}
  Users <- Shared
  Section = free
  Levels = 4
  MaxEvents = 3
  MaxSections = 2
INVARIANTS
  SectionEnds
